---- MODULE Spec2Model ----
(***************************************************************************)
(* Model of the iRacing backend (rockomatthews/STB-Back): the race         *)
(* lifecycle classifier, the normalizer processRaceData, the upsert and    *)
(* paging of getOfficialRaces, and the cookie login / verification /       *)
(* bounded login retry of the server.                                      *)
(*                                                                         *)
(* Times are JavaScript epoch milliseconds (Date values), as integers.     *)
(***************************************************************************)
EXTENDS Integers, Sequences, FiniteSets, TLC

VARIABLES
    now,             \* the wall clock, the value `new Date()` reads (ms)
    raceData,        \* processRaceData: the raw sessions of the last call
    clockReads,      \* the clock value read when raceData[i] was classified
    processedRaces,  \* processRaceData: its local processedRaces (before the filter)
    filteredRaces,   \* processRaceData: the list it returned
    prThrewAt,       \* processRaceData: the index of the session whose mapping
                     \* threw in the last call, 0 when the call returned
    prDone,          \* processRaceData: whether the call has been made
    cookieJar,       \* the module's CookieJar: the cookies set for BASE_URL
    maxLoginAttempts,\* the server's MAX_LOGIN_ATTEMPTS
    emailSet,        \* whether the environment defines IRACING_EMAIL, the first
                     \* argument of every login call of the server
    alPc,            \* attemptLogin: "login" (about to call login), "delay"
                     \* (in the retry delay) or "done" (returned)
    alAttempts,      \* attemptLogin: its parameter `attempts`
    alOutcomes,      \* attemptLogin: what each of its login calls returned, in order
    alDelays,        \* attemptLogin: the retry delays it has waited
    alResult,        \* attemptLogin: the value it returned
    lastLogin,       \* the last login call: the response it got and its outcome
    lastVerify,      \* the last verifyAuth call: the response it got and its outcome
    official_races,  \* the store's official_races table: its rows, in insertion order
    available_cars,  \* the store's available_cars table: its rows, in insertion order
    upsertLog,       \* the official_races upserts the store accepted, in order,
                     \* each with the rows it wrote (history, not program state)
    returnsRows,     \* whether upsert() answers with the written rows (data) or
                     \* with data: null, which depends on the client library used
    carsKeyed,       \* whether the available_cars table has (race_id, car_name)
                     \* as its primary key, which depends on the deployed schema
    calls,           \* the getOfficialRaces calls in progress: position and locals
    started,         \* the number of getOfficialRaces calls made so far
    lastResult,      \* how the last finished getOfficialRaces call ended: by a
                     \* throw, or with the object it returned
    validTokens,     \* upstream: the authtoken values it takes for a live session
    accepting,       \* upstream: whether it is reachable and accepts the credentials
    serving,         \* whether the server process is alive
    lastRequest,     \* the last HTTP request the server handled, and what handling
                     \* it did (history, not program state)
    reAuth,          \* the periodic re-authentication task: its position, and what
                     \* its last run did
    lastSearch,      \* the last searchIRacingName call: its argument, what the
                     \* upstream answered and how it ended
    lastCycle,       \* the last fetch cycle (getOfficialRaces call) that met a
                     \* given upstream: what the upstream did and how the call ended
    reader           \* a client reading the races page by page: the race guide
                     \* upstream while it reads, its page size, and the pages and
                     \* fresh lists of its calls so far (history, not program state)

normVars == <<raceData, clockReads, processedRaces, filteredRaces, prThrewAt, prDone>>
authVars == <<cookieJar, maxLoginAttempts, emailSet, alPc, alAttempts, alOutcomes, alDelays,
              alResult, lastLogin, lastVerify>>
storeVars == <<official_races, available_cars, upsertLog, returnsRows, carsKeyed, calls,
               started, lastResult, reader>>
envVars == <<validTokens, accepting>>
srvVars == <<serving, lastRequest, reAuth, lastSearch, lastCycle>>
vars == <<now, normVars, authVars, storeVars, envVars, srvVars>>

----------------------------------------------------------------------------
(* Bounds of the model *)

\* longest raw session list handed to processRaceData
MaxSessions == 2
\* largest number of milliseconds that pass between two classifications
MaxClockStep == 2
\* largest value of MAX_LOGIN_ATTEMPTS the retry loop is run with
MaxLoginBound == 5
\* number of getOfficialRaces calls made (two may overlap)
MaxCalls == 2
\* number of times the clock advances by TickMinutes between calls
MaxTicks == 1
\* largest page size a client reads with
MaxLimit == 3
\* number of calls a client reading pages makes
MaxPages == 4
\* longest drivers list the lookup answers with
MaxDrivers == 2
\* timer runs counted (the timer itself fires for ever)
MaxRuns == 2
\* largest absolute value of a page argument
MaxPageArg == 3

----------------------------------------------------------------------------
(* Program constants *)

\* MAX_LOGIN_ATTEMPTS of server.js
ServerLoginAttempts == 3

\* 1000 * 60: milliseconds per minute
MsPerMinute == 60000
\* minutesDifference <= 15
QualifyingMinutes == 15
\* minutesDifference <= 45
PracticeMinutes == 45

RaceStates == {"Racing", "Qualifying", "Practice", "Scheduled"}

----------------------------------------------------------------------------
(* The values before anything ran *)

NoResult == [finished |-> FALSE, threw |-> FALSE,
             races |-> <<>>, total |-> 0, page |-> 0, limit |-> 0]

\* no client reading pages
NoReader == [guide |-> <<>>, limit |-> 0, pages |-> <<>>, first |-> <<>>, latest |-> <<>>]

\* no HTTP request handled
NoRequest == [handled |-> FALSE, route |-> "", verified |-> FALSE, status |-> 0,
              handlerRan |-> FALSE, dataRequests |-> 0, storeWrites |-> 0,
              loginGaveUp |-> FALSE]

\* the re-authentication timer has not fired
NoReAuth == [pc |-> "idle", runs |-> 0, verified |-> FALSE, loginCalled |-> FALSE,
             loginReturned |-> FALSE, loginThrew |-> FALSE, rejected |-> FALSE]

\* no searchIRacingName call
NoSearch == [called |-> FALSE, name |-> [isString |-> TRUE, chars |-> <<>>],
             answer |-> [firstHop |-> "fails", secondHop |-> "none", drivers |-> <<>>],
             result |-> [exists |-> FALSE, name |-> <<>>, id |-> 0, threw |-> FALSE]]

\* no fetch cycle observed
NoCycle == [ran |-> FALSE, threw |-> FALSE,
            upstream |-> [guideHop |-> "link", guideBody |-> "sessions",
                          series |-> "ok", tracks |-> "ok", cars |-> "ok"]]

\* the upstream before any login: no live session, credentials accepted
EnvIdle ==
    /\ validTokens = {}
    /\ accepting = TRUE

\* the server side before any request, timer run, search or observed cycle
SrvIdle ==
    /\ serving = TRUE
    /\ lastRequest = NoRequest
    /\ reAuth = NoReAuth
    /\ lastSearch = NoSearch
    /\ lastCycle = NoCycle

\* the requests being served at once
CallIds == {1, 2}

IdleCall == [pc |-> "idle", freshRaces |-> <<>>, page |-> 0, limit |-> 0,
             i |-> 0, j |-> 0, raceId |-> 0]

\* no normalizer call under observation
NormIdle ==
    /\ raceData = <<>>
    /\ clockReads = <<>>
    /\ processedRaces = <<>>
    /\ filteredRaces = <<>>
    /\ prThrewAt = 0
    /\ prDone = FALSE

\* an empty store and no call (used by the specifications that do not
\* exercise the store)
StoreIdle ==
    /\ official_races = <<>>
    /\ available_cars = <<>>
    /\ upsertLog = <<>>
    /\ returnsRows = TRUE
    /\ carsKeyed = FALSE
    /\ calls = [c \in CallIds |-> IdleCall]
    /\ started = 0
    /\ lastResult = NoResult
    /\ reader = NoReader

NoLogin == [called |-> FALSE,
            resp |-> [status |-> 0, hasSetCookie |-> FALSE, setCookie |-> <<>>],
            jarBefore |-> {}, returned |-> FALSE, threw |-> FALSE]
NoVerify == [called |-> FALSE, status |-> 0, returned |-> FALSE, threw |-> FALSE]

\* the session and the retry loop before anything ran (used by the
\* specifications that do not exercise authentication)
AuthIdle ==
    /\ cookieJar = {}
    /\ maxLoginAttempts = MaxLoginBound
    /\ emailSet = TRUE
    /\ alPc = "done"
    /\ alAttempts = 0
    /\ alOutcomes = <<>>
    /\ alDelays = 0
    /\ alResult = FALSE
    /\ lastLogin = NoLogin
    /\ lastVerify = NoVerify

----------------------------------------------------------------------------
(* calculateRaceState *)

\* minutesDifference <= m, where minutesDifference = timeDifference / (1000 * 60)
\* is a real number: the division is exact, so the comparison is the one on
\* milliseconds.
MinutesLeq(timeDifference, m) == timeDifference <= m * MsPerMinute

\* the classifier with the Qualifying boundary excluded (minutesDifference < 15)
calculateRaceState_strict(raceStartTime, currentTime) ==
    LET timeDifference == raceStartTime - currentTime
    IN  IF MinutesLeq(timeDifference, 0) THEN "Racing"
        ELSE IF timeDifference < QualifyingMinutes * MsPerMinute THEN "Qualifying"
        ELSE IF MinutesLeq(timeDifference, PracticeMinutes) THEN "Practice"
        ELSE "Scheduled"

\* calculateRaceState(raceStartTime), with the value currentTime = new Date() it reads
calculateRaceState(raceStartTime, currentTime) ==
    LET timeDifference == raceStartTime - currentTime
    IN  IF MinutesLeq(timeDifference, 0) THEN "Racing"
        ELSE IF MinutesLeq(timeDifference, QualifyingMinutes) THEN "Qualifying"
        ELSE IF MinutesLeq(timeDifference, PracticeMinutes) THEN "Practice"
        ELSE "Scheduled"

----------------------------------------------------------------------------
(* Upstream catalogs and raw sessions: the values the model feeds the code *)

\* a session's `track` member: absent, or an object with an id and a name
NoTrack == [present |-> FALSE]
Track(id, name) == [present |-> TRUE, track_id |-> id, track_name |-> name]

\* a raw session of the race guide (entry_count absent reads as 0: `|| 0`)
RawSession(sid, start, track, entries) ==
    [series_id |-> sid, start_time |-> start, track |-> track, entry_count |-> entries]

\* the series catalog: series 3 has an empty allowed_licenses list
SeriesCatalog ==
    << [series_id |-> 2, series_name |-> "GT Sprint", category_id |-> 5,
        car_class_ids |-> <<20, 10>>, allowed_licenses |-> <<"Class A">>],
       [series_id |-> 1, series_name |-> "Rookie Oval", category_id |-> 1,
        car_class_ids |-> <<10>>, allowed_licenses |-> <<"Rookie">>],
       [series_id |-> 3, series_name |-> "Open Cup", category_id |-> 2,
        car_class_ids |-> <<>>, allowed_licenses |-> <<>>] >>

TrackCatalog == << [track_id |-> 7, track_name |-> "Daytona"] >>

CarCatalog ==
    << [car_class_id |-> 10, car_name |-> "MX-5"],
       [car_class_id |-> 20, car_name |-> "911 GT3"],
       [car_class_id |-> 20, car_name |-> "MX-5"] >>

\* a series id that is in no catalog entry
UnknownSeriesId == 99

\* start times (ms) around the classifier's boundaries, the clock starting at 0
StartTimes ==
    { -5 * MsPerMinute, 1, 10 * MsPerMinute,
      QualifyingMinutes * MsPerMinute + 1, QualifyingMinutes * MsPerMinute + 2,
      30 * MsPerMinute, PracticeMinutes * MsPerMinute + 1, 60 * MsPerMinute }

RawSessions ==
    { RawSession(1, t, Track(7, "Daytona Road"), 12) : t \in StartTimes }
    \cup { RawSession(UnknownSeriesId, t, NoTrack, 0) :
              t \in { 1, QualifyingMinutes * MsPerMinute + 1, 60 * MsPerMinute } }
    \cup { RawSession(3, 10 * MsPerMinute, Track(8, "Lime Rock"), 4) }

\* all sequences over S of length at most n
SeqsUpTo(S, n) == UNION { [1..k -> S] : k \in 0..n }

----------------------------------------------------------------------------
(* processRaceData *)

\* the smallest element of a non-empty set of integers
Min(S) == CHOOSE x \in S : \A y \in S : x <= y

\* seriesData.find(s => s.series_id === race.series_id): the index of the first
\* match, 0 when find returns undefined
FindSeries(seriesData, seriesId) ==
    LET hits == { i \in 1..Len(seriesData) : seriesData[i].series_id = seriesId }
    IN  IF hits = {} THEN 0 ELSE Min(hits)

\* trackData.find(t => t.track_id === race.track.track_id): index, 0 when undefined
FindTrack(trackData, trackId) ==
    LET hits == { i \in 1..Len(trackData) : trackData[i].track_id = trackId }
    IN  IF hits = {} THEN 0 ELSE Min(hits)

\* concatenation of the sequences of a sequence (flatMap's flattening)
RECURSIVE Flatten(_)
Flatten(seqs) ==
    IF seqs = <<>> THEN <<>> ELSE Head(seqs) \o Flatten(Tail(seqs))

\* carClassMap[id] || 'Unknown', with the fallback category 1 of the season-based variant
carClassName_default1(categoryId) ==
    CASE categoryId = 1 -> "Oval"
      [] categoryId = 3 -> "Dirt Oval"
      [] categoryId = 4 -> "Dirt Road"
      [] categoryId = 5 -> "Sports Car"
      [] categoryId = 6 -> "Formula"
      [] OTHER -> "Oval"

\* carClassMap[id] || 'Unknown'
carClassName(categoryId) ==
    CASE categoryId = 1 -> "Oval"
      [] categoryId = 2 -> "Unknown"
      [] categoryId = 3 -> "Dirt Oval"
      [] categoryId = 4 -> "Dirt Road"
      [] categoryId = 5 -> "Sports Car"
      [] categoryId = 6 -> "Formula"
      [] OTHER -> "Unknown"

\* whether the callback of raceData.map throws for a raw session:
\* series.allowed_licenses[0].group_name with an empty list is a TypeError
ProcessRaceThrows(race, seriesData) ==
    LET si == FindSeries(seriesData, race.series_id)
    IN  si # 0 /\ Len(seriesData[si].allowed_licenses) = 0

\* the callback of raceData.map: the record built for one raw session, the
\* clock reading currentTime when it is classified
ProcessRace(race, seriesData, trackData, carData, currentTime) ==
    LET si == FindSeries(seriesData, race.series_id)
        ti == IF race.track.present /\ race.track.track_id # 0
              THEN FindTrack(trackData, race.track.track_id)
              ELSE 0
        state == calculateRaceState(race.start_time, currentTime)
        availableCars ==
            IF si # 0
            THEN LET ids == seriesData[si].car_class_ids
                 IN  Flatten([k \in 1..Len(ids) |->
                        LET picked == SelectSeq(carData,
                                        LAMBDA car : car.car_class_id = ids[k])
                        IN  [j \in 1..Len(picked) |-> picked[j].car_name]])
            ELSE <<>>
    IN  [ title |-> IF si # 0 THEN seriesData[si].series_name ELSE "Unknown Series",
          start_time |-> race.start_time,
          track_name |-> IF ti # 0 THEN trackData[ti].track_name
                         ELSE IF race.track.present THEN race.track.track_name
                         ELSE "Unknown Track",
          state |-> state,
          license_level |-> IF si # 0
                            THEN IF Len(seriesData[si].allowed_licenses) > 0
                                 THEN seriesData[si].allowed_licenses[1]
                                 ELSE "TypeError"
                            ELSE "Unknown",
          car_class |-> IF si # 0 THEN seriesData[si].category_id ELSE 0,
          car_class_name |-> carClassName(IF si # 0 THEN seriesData[si].category_id ELSE 0),
          number_of_racers |-> race.entry_count,
          series_id |-> race.series_id,
          available_cars |-> availableCars ]

\* the sort comparator: negative when a goes first, positive when b goes first
CompareRaces(a, b) ==
    IF a.state = b.state THEN a.start_time - b.start_time
    ELSE IF a.state = "Qualifying" THEN -1 ELSE 1

\* Array.prototype.sort is stable: x goes before the first element that must
\* follow it (insertion into an already sorted list)
RECURSIVE InsertSorted(_, _)
InsertSorted(x, sorted) ==
    IF sorted = <<>> THEN <<x>>
    ELSE IF CompareRaces(Head(sorted), x) > 0 THEN <<x>> \o sorted
    ELSE <<Head(sorted)>> \o InsertSorted(x, Tail(sorted))

RECURSIVE SortFrom(_, _, _)
SortFrom(seq, i, acc) ==
    IF i > Len(seq) THEN acc
    ELSE SortFrom(seq, i + 1, InsertSorted(seq[i], acc))

\* .sort((a, b) => ...) with the comparator CompareRaces
SortRaces(seq) == SortFrom(seq, 1, <<>>)

\* the filter of processRaceData letting Racing entries through
IsPublished_withRacing(race) == race.state \in {"Qualifying", "Practice", "Racing"}

\* race.state === 'Qualifying' || race.state === 'Practice'
IsPublished(race) == race.state \in {"Qualifying", "Practice"}

\* processRaceData(raceData, seriesData, trackData, carData), session i being
\* classified at clock value clocks[i]. threwAt: the first session whose mapping
\* throws (0: none); processed: the records built before that; races: the
\* filtered, sorted list returned (none when it threw)
processRaceData(sessions, seriesData, trackData, carData, clocks) ==
    LET bad == { i \in 1..Len(sessions) : ProcessRaceThrows(sessions[i], seriesData) }
        threwAt == IF bad = {} THEN 0 ELSE Min(bad)
        n == IF threwAt = 0 THEN Len(sessions) ELSE threwAt - 1
        processed == [i \in 1..n |->
                        ProcessRace(sessions[i], seriesData, trackData, carData, clocks[i])]
    IN  [ threwAt |-> threwAt,
          processed |-> processed,
          races |-> IF threwAt # 0 THEN <<>>
                    ELSE SortRaces(SelectSeq(processed, IsPublished)) ]

----------------------------------------------------------------------------
(* The backing store (Supabase) and getOfficialRaces *)

\* the natural key of a race or of a row
NaturalKey(r) == <<r.series_id, r.start_time>>

\* upsert of one row that conflicts on the row's id: the rows written carry no
\* id, so none conflicts and each is inserted
UpsertRow_onConflictId(table, race) ==
    Append(table, [id |-> Len(table) + 1] @@ race)

\* upsert of one row with onConflict 'series_id,start_time', ignoreDuplicates
\* false: the row with its key takes the new values and keeps its id; without
\* one the row is inserted under a fresh id
UpsertRow(table, race) ==
    LET hits == { i \in 1..Len(table) : NaturalKey(table[i]) = NaturalKey(race) }
    IN  IF hits = {}
        THEN Append(table, [id |-> Len(table) + 1] @@ race)
        ELSE [i \in 1..Len(table) |->
                IF i \in hits THEN [id |-> table[i].id] @@ race ELSE table[i]]

\* a reconciliation that replaces the table by the list
UpsertRows_replace(table, races) ==
    [i \in 1..Len(races) |-> [id |-> i] @@ races[i]]

\* upsert of a list of rows, in order
RECURSIVE UpsertRows(_, _)
UpsertRows(table, races) ==
    IF races = <<>> THEN table
    ELSE UpsertRows(UpsertRow(table, Head(races)), Tail(races))

\* whether a list of rows names one natural key twice: the store runs a list
\* as one INSERT ... ON CONFLICT DO UPDATE statement, which it rejects when the
\* statement would write the same row a second time
WritesRowTwice(races) ==
    \E i, j \in 1..Len(races) : i # j /\ NaturalKey(races[i]) = NaturalKey(races[j])

\* Array.prototype.slice(start, end): negative indices count from the end, and
\* both are clamped to the length
JsSlice(seq, start, end) ==
    LET len == Len(seq)
        from == IF start < 0 THEN (IF len + start < 0 THEN 0 ELSE len + start)
                ELSE (IF start > len THEN len ELSE start)
        to == IF end < 0 THEN (IF len + end < 0 THEN 0 ELSE len + end)
              ELSE (IF end > len THEN len ELSE end)
    IN  IF to <= from THEN <<>> ELSE [k \in 1..(to - from) |-> seq[from + k]]

\* freshRaces.slice((page - 1) * limit, page * limit)
Paginate(freshRaces, page, limit) ==
    JsSlice(freshRaces, (page - 1) * limit, page * limit)

\* the page argument used as it comes
ClampPage_none(page) == page

\* Math.max(1, page)
ClampPage(page) == IF page < 1 THEN 1 ELSE page

\* a result whose total counts the races of the page
OfficialRacesResult_pageTotal(freshRaces, page, limit) ==
    [ finished |-> TRUE, threw |-> FALSE,
      races |-> Paginate(freshRaces, page, limit),
      total |-> Len(Paginate(freshRaces, page, limit)),
      page |-> page,
      limit |-> limit ]

\* the object getOfficialRaces returns
OfficialRacesResult(freshRaces, page, limit) ==
    [ finished |-> TRUE, threw |-> FALSE,
      races |-> Paginate(freshRaces, page, limit),
      total |-> Len(freshRaces),
      page |-> page,
      limit |-> limit ]

\* getOfficialRaces ended by a throw (its catch clause rethrows)
OfficialRacesThrew == [NoResult EXCEPT !.finished = TRUE, !.threw = TRUE]

\* minutes the clock advances between calls
TickMinutes == 20

\* the sessions the race guide lists while the store is exercised: two reports
\* of the same session (same series and start, another entry count) and a
\* session of an unknown series at the same start time
SessionA12 == RawSession(1, 30 * MsPerMinute, Track(7, "Daytona Road"), 12)
SessionA13 == RawSession(1, 30 * MsPerMinute, Track(7, "Daytona Road"), 13)
SessionU == RawSession(UnknownSeriesId, 30 * MsPerMinute, NoTrack, 0)

\* the race guides a fetch may meet: empty, one session, two sessions, and
\* one that lists the same series and start time twice
RaceGuides ==
    { <<>>, <<SessionA12>>, <<SessionA13>>, <<SessionU>>,
      <<SessionA12, SessionU>>, <<SessionU, SessionA13>>, <<SessionA12, SessionA13>> }

PageArgs == {0, 2}
LimitArgs == {1, 10}

InitStore ==
    /\ now = 0
    /\ EnvIdle
    /\ SrvIdle
    /\ NormIdle
    /\ AuthIdle
    /\ StoreIdle

\* time passes between calls
ClockTick ==
    /\ now < MaxTicks * TickMinutes * MsPerMinute
    /\ now' = now + TickMinutes * MsPerMinute
    /\ UNCHANGED <<envVars, srvVars, normVars, authVars, storeVars>>

\* getOfficialRaces(userId, page, limit) up to its first store request: clamp
\* the page, fetch and normalize (fetchRacesFromIRacingAPI); an upstream failure
\* or a throwing processRaceData makes the call throw; an empty list skips the
\* upsert and returns at once
GetOfficialRacesFetch(c) ==
    /\ calls[c].pc = "idle"
    /\ started < MaxCalls
    /\ started' = started + 1
    /\ \E pageArg \in PageArgs, limit \in LimitArgs, upstreamOk \in BOOLEAN,
          sessions \in RaceGuides :
         LET page == ClampPage(pageArg)
             r == processRaceData(sessions, SeriesCatalog, TrackCatalog, CarCatalog,
                                  [i \in 1..Len(sessions) |-> now])
         IN  IF ~upstreamOk \/ r.threwAt # 0
             THEN /\ lastResult' = OfficialRacesThrew
                  /\ UNCHANGED calls
             ELSE IF Len(r.races) = 0
             THEN /\ lastResult' = OfficialRacesResult(r.races, page, limit)
                  /\ UNCHANGED calls
             ELSE /\ calls' = [calls EXCEPT ![c] =
                        [@ EXCEPT !.pc = "upsert", !.page = page, !.limit = limit,
                                  !.freshRaces = r.races]]
                  /\ UNCHANGED lastResult
    /\ UNCHANGED <<now, envVars, srvVars, normVars, authVars, official_races, available_cars, upsertLog,
                   returnsRows, carsKeyed, reader>>

\* the batch upsert of the fresh races answers: with an error (logged, the
\* store unchanged; the only answer to a list that writes a row twice) or with
\* success; then the call returns the page of the
\* fresh list
GetOfficialRacesUpsert(c) ==
    /\ calls[c].pc = "upsert"
    /\ \E storeOk \in BOOLEAN :
         IF storeOk /\ ~WritesRowTwice(calls[c].freshRaces)
         THEN /\ official_races' = UpsertRows(official_races, calls[c].freshRaces)
              /\ upsertLog' = Append(upsertLog, calls[c].freshRaces)
         ELSE UNCHANGED <<official_races, upsertLog>>
    /\ lastResult' = OfficialRacesResult(calls[c].freshRaces, calls[c].page, calls[c].limit)
    /\ calls' = [calls EXCEPT ![c] = IdleCall]
    /\ UNCHANGED <<now, envVars, srvVars, normVars, authVars, available_cars, returnsRows, carsKeyed, started,
                   reader>>

NextStore ==
    \/ ClockTick
    \/ \E c \in CallIds : GetOfficialRacesFetch(c)
    \/ \E c \in CallIds : GetOfficialRacesUpsert(c)

SpecStore == InitStore /\ [][NextStore]_vars

----------------------------------------------------------------------------
(* getOfficialRaces, the variant that upserts race by race and then writes *)
(* the race's available cars to the available_cars table                   *)

\* the columns this variant writes to official_races
RaceColumns(race) ==
    [ title |-> race.title,
      start_time |-> race.start_time,
      track_name |-> race.track_name,
      state |-> race.state,
      license_level |-> race.license_level,
      car_class |-> race.car_class,
      number_of_racers |-> race.number_of_racers,
      series_id |-> race.series_id ]

\* the id of the row of a natural key, which the upsert returns as upsertData[0].id
RowId(table, race) ==
    LET i == CHOOSE k \in 1..Len(table) : NaturalKey(table[k]) = NaturalKey(race)
    IN  table[i].id

\* upsert({race_id, car_name}) without onConflict: the conflict target is the
\* table's primary key; the row names no generated key, so it is inserted
\* unless (race_id, car_name) is itself the primary key
UpsertCar(table, row, keyed) ==
    IF keyed /\ \E k \in 1..Len(table) : table[k] = row
    THEN table
    ELSE Append(table, row)

\* the call after it is done with freshRaces[i]: on to the next race, or return
\* the page of the fresh list
AfterRace(c, i) ==
    IF i < Len(calls[c].freshRaces)
    THEN /\ calls' = [calls EXCEPT ![c] = [@ EXCEPT !.pc = "upsert", !.i = i, !.j = 0]]
         /\ UNCHANGED lastResult
    ELSE /\ calls' = [calls EXCEPT ![c] = IdleCall]
         /\ lastResult' = OfficialRacesResult(calls[c].freshRaces, calls[c].page,
                                              calls[c].limit)

InitStorePerRow ==
    /\ now = 0
    /\ EnvIdle
    /\ SrvIdle
    /\ NormIdle
    /\ AuthIdle
    /\ official_races = <<>>
    /\ available_cars = <<>>
    /\ upsertLog = <<>>
    /\ returnsRows \in BOOLEAN
    /\ carsKeyed \in BOOLEAN
    /\ calls = [c \in CallIds |-> IdleCall]
    /\ started = 0
    /\ lastResult = NoResult
    /\ reader = NoReader

\* the upsert of the next race answers. On an error the race's cars are
\* skipped. On success the loop over race.available_cars starts; its first
\* request reads upsertData[0].id, a TypeError when the answer carries no rows,
\* which ends the call through its catch clause
UpsertRaceRow(c) ==
    /\ calls[c].pc = "upsert"
    /\ LET i == calls[c].i + 1
           race == calls[c].freshRaces[i]
       IN  \E storeOk \in BOOLEAN :
             IF ~storeOk
             THEN /\ AfterRace(c, i)
                  /\ UNCHANGED <<official_races, upsertLog>>
             ELSE /\ official_races' = UpsertRow(official_races, RaceColumns(race))
                  /\ upsertLog' = Append(upsertLog, <<RaceColumns(race)>>)
                  /\ IF Len(race.available_cars) = 0
                     THEN AfterRace(c, i)
                     ELSE IF ~returnsRows
                     THEN /\ calls' = [calls EXCEPT ![c] = IdleCall]
                          /\ lastResult' = OfficialRacesThrew
                     ELSE /\ calls' = [calls EXCEPT ![c] =
                                [@ EXCEPT !.pc = "cars", !.i = i, !.j = 0,
                                          !.raceId = RowId(official_races', race)]]
                          /\ UNCHANGED lastResult
    /\ UNCHANGED <<now, envVars, srvVars, normVars, authVars, available_cars, returnsRows, carsKeyed, started,
                   reader>>

\* the upsert of the next available car of freshRaces[i] answers: with an error
\* (logged) or with success
UpsertCarRow(c) ==
    /\ calls[c].pc = "cars"
    /\ LET i == calls[c].i
           cars == calls[c].freshRaces[i].available_cars
           j == calls[c].j + 1
       IN  /\ \E storeOk \in BOOLEAN :
                available_cars' =
                    IF storeOk
                    THEN UpsertCar(available_cars,
                                   [race_id |-> calls[c].raceId, car_name |-> cars[j]],
                                   carsKeyed)
                    ELSE available_cars
           /\ IF j < Len(cars)
              THEN /\ calls' = [calls EXCEPT ![c] = [@ EXCEPT !.j = j]]
                   /\ UNCHANGED lastResult
              ELSE AfterRace(c, i)
    /\ UNCHANGED <<now, envVars, srvVars, normVars, authVars, official_races, upsertLog, returnsRows,
                   carsKeyed, started, reader>>

NextStorePerRow ==
    \/ ClockTick
    \/ \E c \in CallIds : GetOfficialRacesFetch(c)
    \/ \E c \in CallIds : UpsertRaceRow(c)
    \/ \E c \in CallIds : UpsertCarRow(c)

SpecStorePerRow == InitStorePerRow /\ [][NextStorePerRow]_vars

\* the loop of the version that logs a failed race upsert and goes on to the
\* race's cars all the same: the upsert of the next race answers; the loop over
\* race.available_cars then reads upsertData[0].id, a TypeError when the answer
\* is an error (data is null) or carries no rows, which ends the call through
\* its catch clause
UpsertRaceThenCars(c) ==
    /\ calls[c].pc = "upsert"
    /\ LET i == calls[c].i + 1
           race == calls[c].freshRaces[i]
       IN  \E storeOk \in BOOLEAN :
             /\ IF storeOk
                THEN /\ official_races' = UpsertRow(official_races, RaceColumns(race))
                     /\ upsertLog' = Append(upsertLog, <<RaceColumns(race)>>)
                ELSE UNCHANGED <<official_races, upsertLog>>
             /\ IF Len(race.available_cars) = 0
                THEN AfterRace(c, i)
                ELSE IF ~storeOk \/ ~returnsRows
                THEN /\ calls' = [calls EXCEPT ![c] = IdleCall]
                     /\ lastResult' = OfficialRacesThrew
                ELSE /\ calls' = [calls EXCEPT ![c] =
                           [@ EXCEPT !.pc = "cars", !.i = i, !.j = 0,
                                     !.raceId = RowId(official_races', race)]]
                     /\ UNCHANGED lastResult
    /\ UNCHANGED <<now, envVars, srvVars, normVars, authVars, available_cars, returnsRows,
                   carsKeyed, started, reader>>

NextStoreRaceThenCars ==
    \/ ClockTick
    \/ \E c \in CallIds : GetOfficialRacesFetch(c)
    \/ \E c \in CallIds : UpsertRaceThenCars(c)
    \/ \E c \in CallIds : UpsertCarRow(c)

SpecStoreRaceThenCars == InitStorePerRow /\ [][NextStoreRaceThenCars]_vars

----------------------------------------------------------------------------
(* A client reading the races page by page: getOfficialRaces(userId, 1, L), *)
(* getOfficialRaces(userId, 2, L), ... one call after the other, while the  *)
(* race guide upstream stays as it is                                        *)

Session10 == RawSession(1, 10 * MsPerMinute, Track(7, "Daytona Road"), 5)
SessionB60 == RawSession(2, 60 * MsPerMinute, Track(9, "Spa"), 20)

\* the race guides a reader may meet: up to three different sessions, in any order
PagingGuides ==
    { g \in SeqsUpTo({Session10, SessionA12, SessionB60}, 3) :
        \A i, j \in 1..Len(g) : g[i] = g[j] => i = j }

InitPaging ==
    /\ now = 0
    /\ EnvIdle
    /\ SrvIdle
    /\ NormIdle
    /\ AuthIdle
    /\ official_races = <<>>
    /\ available_cars = <<>>
    /\ upsertLog = <<>>
    /\ returnsRows = TRUE
    /\ carsKeyed = FALSE
    /\ calls = [c \in CallIds |-> IdleCall]
    /\ started = 0
    /\ lastResult = NoResult
    /\ \E guide \in PagingGuides, limit \in 1..MaxLimit :
         reader = [NoReader EXCEPT !.guide = guide, !.limit = limit]

\* the reader's next call, from entry to return: getOfficialRaces(userId,
\* page, limit) for the page after the last one it got. The call fetches and
\* normalizes the race guide at the current clock, upserts the fresh list (the
\* store may refuse) and returns the page of the fresh list; a failed fetch
\* makes it throw, and the reader asks for the same page again
ReadNextPage ==
    /\ started < MaxPages
    /\ started' = started + 1
    /\ \E upstreamOk \in BOOLEAN, storeOk \in BOOLEAN :
         LET page == ClampPage(Len(reader.pages) + 1)
             r == processRaceData(reader.guide, SeriesCatalog, TrackCatalog, CarCatalog,
                                  [i \in 1..Len(reader.guide) |-> now])
         IN  IF ~upstreamOk \/ r.threwAt # 0
             THEN /\ lastResult' = OfficialRacesThrew
                  /\ UNCHANGED <<official_races, upsertLog, reader>>
             ELSE /\ IF Len(r.races) > 0 /\ storeOk /\ ~WritesRowTwice(r.races)
                     THEN /\ official_races' = UpsertRows(official_races, r.races)
                          /\ upsertLog' = Append(upsertLog, r.races)
                     ELSE UNCHANGED <<official_races, upsertLog>>
                  /\ lastResult' = OfficialRacesResult(r.races, page, reader.limit)
                  /\ reader' = [reader EXCEPT
                        !.pages = Append(@, Paginate(r.races, page, reader.limit)),
                        !.first = IF page = 1 THEN r.races ELSE @,
                        !.latest = r.races]
    /\ UNCHANGED <<now, envVars, srvVars, normVars, authVars, available_cars, returnsRows, carsKeyed, calls>>

NextPaging ==
    \/ ClockTick
    \/ ReadNextPage

SpecPaging == InitPaging /\ [][NextPaging]_vars

\* a getOfficialRaces(userId, page, limit) call with its arguments as the
\* caller passed them: any integer page (zero and negative included), a
\* positive page size
PageArguments == (0 - MaxPageArg)..MaxPageArg

InitPageArgs ==
    /\ now = 0
    /\ EnvIdle
    /\ SrvIdle
    /\ NormIdle
    /\ AuthIdle
    /\ official_races = <<>>
    /\ available_cars = <<>>
    /\ upsertLog = <<>>
    /\ returnsRows = TRUE
    /\ carsKeyed = FALSE
    /\ started = 0
    /\ lastResult = NoResult
    /\ \E guide \in PagingGuides : reader = [NoReader EXCEPT !.guide = guide]
    /\ \E page \in PageArguments, limit \in 1..MaxLimit :
         calls = [c \in CallIds |->
                    IF c = 1
                    THEN [IdleCall EXCEPT !.pc = "called", !.page = page, !.limit = limit]
                    ELSE IdleCall]

\* the call from entry to return: page = Math.max(1, page), fetch and normalize
\* the race guide (a failed fetch makes the call throw), upsert the fresh list
\* (the store may refuse), return the page of the fresh list. The call record
\* keeps the arguments and the fresh list
GetOfficialRacesWithArgs(c) ==
    /\ calls[c].pc = "called"
    /\ started' = started + 1
    /\ \E upstreamOk \in BOOLEAN, storeOk \in BOOLEAN :
         LET page == ClampPage(calls[c].page)
             r == processRaceData(reader.guide, SeriesCatalog, TrackCatalog, CarCatalog,
                                  [i \in 1..Len(reader.guide) |-> now])
         IN  IF ~upstreamOk \/ r.threwAt # 0
             THEN /\ lastResult' = OfficialRacesThrew
                  /\ calls' = [calls EXCEPT ![c] = [@ EXCEPT !.pc = "returned"]]
                  /\ UNCHANGED <<official_races, upsertLog>>
             ELSE /\ IF Len(r.races) > 0 /\ storeOk /\ ~WritesRowTwice(r.races)
                     THEN /\ official_races' = UpsertRows(official_races, r.races)
                          /\ upsertLog' = Append(upsertLog, r.races)
                     ELSE UNCHANGED <<official_races, upsertLog>>
                  /\ lastResult' = OfficialRacesResult(r.races, page, calls[c].limit)
                  /\ calls' = [calls EXCEPT ![c] =
                                 [@ EXCEPT !.pc = "returned", !.freshRaces = r.races]]
    /\ UNCHANGED <<now, envVars, srvVars, normVars, authVars, available_cars, returnsRows,
                   carsKeyed, reader>>

NextPageArgs == \E c \in CallIds : GetOfficialRacesWithArgs(c)

SpecPageArgs == InitPageArgs /\ [][NextPageArgs]_vars

\* the version of getOfficialRaces that answers from the store

\* .order('state', { ascending: true }): text order, 'Practice' before 'Qualifying'
StateRank(state) == IF state = "Practice" THEN 1 ELSE 2

\* whether row a goes after row b under order('state').order('start_time')
RowAfter(a, b) ==
    \/ StateRank(a.state) > StateRank(b.state)
    \/ StateRank(a.state) = StateRank(b.state) /\ a.start_time > b.start_time

RECURSIVE InsertRow(_, _)
InsertRow(x, sorted) ==
    IF sorted = <<>> THEN <<x>>
    ELSE IF RowAfter(Head(sorted), x) THEN <<x>> \o sorted
    ELSE <<Head(sorted)>> \o InsertRow(x, Tail(sorted))

RECURSIVE OrderRows(_)
OrderRows(rows) ==
    IF rows = <<>> THEN <<>>
    ELSE InsertRow(rows[Len(rows)], OrderRows(SubSeq(rows, 1, Len(rows) - 1)))

\* .or('state.eq.Qualifying,state.eq.Practice') on the stored state column
StoredAsPublished(row) == row.state \in {"Qualifying", "Practice"}

\* the select of getOfficialRaces: the rows stored as Qualifying or Practice, in
\* order; the clock is not consulted
SelectPublished(table, clock) == OrderRows(SelectSeq(table, StoredAsPublished))

\* .range((page - 1) * limit, page * limit - 1) of the ordered rows
RangeOf(rows, page, limit) == JsSlice(rows, (page - 1) * limit, page * limit)

\* the race guides of this version's model: sessions whose track is in the catalog
ServedGuides == { <<>>, <<Session10>>, <<SessionA12>>, <<Session10, SessionA12>> }

InitStoreServed ==
    /\ now = 0
    /\ EnvIdle
    /\ SrvIdle
    /\ NormIdle
    /\ AuthIdle
    /\ StoreIdle

\* getOfficialRaces(userId, page, limit) from entry to return: fetch and
\* normalize (a failure makes the call throw), upsert the fresh list when it is
\* not empty (an error is logged), then select the page from the store (an
\* error makes the call throw) and return it with the count
GetOfficialRacesServed(c) ==
    /\ calls[c].pc = "idle"
    /\ started < MaxCalls
    /\ started' = started + 1
    /\ \E pageArg \in PageArgs, limit \in LimitArgs, upstreamOk \in BOOLEAN,
          storeOk \in BOOLEAN, readOk \in BOOLEAN, sessions \in ServedGuides :
         LET page == ClampPage(pageArg)
             r == processRaceData(sessions, SeriesCatalog, TrackCatalog, CarCatalog,
                                  [i \in 1..Len(sessions) |-> now])
             fresh == [i \in 1..Len(r.races) |-> RaceColumns(r.races[i])]
             written == Len(fresh) > 0 /\ storeOk /\ ~WritesRowTwice(fresh)
             table == IF written THEN UpsertRows(official_races, fresh) ELSE official_races
             rows == SelectPublished(table, now)
         IN  IF ~upstreamOk \/ r.threwAt # 0
             THEN /\ lastResult' = OfficialRacesThrew
                  /\ UNCHANGED <<official_races, upsertLog>>
             ELSE /\ official_races' = table
                  /\ upsertLog' = IF written THEN Append(upsertLog, fresh) ELSE upsertLog
                  /\ lastResult' =
                       IF readOk
                       THEN [ finished |-> TRUE, threw |-> FALSE,
                              races |-> RangeOf(rows, page, limit),
                              total |-> Len(rows), page |-> page, limit |-> limit ]
                       ELSE OfficialRacesThrew
    /\ UNCHANGED <<now, envVars, srvVars, normVars, authVars, available_cars, returnsRows,
                   carsKeyed, calls, reader>>

NextStoreServed ==
    \/ ClockTick
    \/ \E c \in CallIds : GetOfficialRacesServed(c)

SpecStoreServed == InitStoreServed /\ [][NextStoreServed]_vars

(* The cached getOfficialRaces: the page is served from the store while fresh *)

\* number of times the clock advances between cached calls
MaxCacheTicks == 3

\* 5 * 60 * 1000: the age below which the cached page is served
CacheMinutes == 5

\* the clock steps between calls: a millisecond, and a millisecond short of the
\* cache age
CacheSteps == {1, CacheMinutes * MsPerMinute - 1}

\* the sessions the race guide may list, by id, with their start times
CachedStart == [id \in {1, 2} |-> id * 10 * MsPerMinute]
CachedGuides == { <<>>, <<1>>, <<2>>, <<1, 2>> }

\* the object the map callback builds for a session, the clock reading `at`
CachedRace(id, at) == [id |-> id, start_time |-> CachedStart[id], updated_at |-> at]

\* .upsert(race, { onConflict: 'id' }): the row with that id is replaced
UpsertById(table, race) ==
    IF \E k \in 1..Len(table) : table[k].id = race.id
    THEN [k \in 1..Len(table) |-> IF table[k].id = race.id THEN race ELSE table[k]]
    ELSE Append(table, race)

\* for (const race of races) upsert
RECURSIVE UpsertAllById(_, _)
UpsertAllById(table, races) ==
    IF races = <<>> THEN table
    ELSE UpsertAllById(UpsertById(table, Head(races)), Tail(races))

\* .order('start_time', { ascending: true })
RECURSIVE InsertByStart(_, _)
InsertByStart(x, sorted) ==
    IF sorted = <<>> THEN <<x>>
    ELSE IF Head(sorted).start_time > x.start_time THEN <<x>> \o sorted
    ELSE <<Head(sorted)>> \o InsertByStart(x, Tail(sorted))

RECURSIVE OrderByStart(_)
OrderByStart(rows) ==
    IF rows = <<>> THEN <<>>
    ELSE InsertByStart(rows[Len(rows)], OrderByStart(SubSeq(rows, 1, Len(rows) - 1)))

\* Math.max(...cachedRaces.map(race => new Date(race.updated_at)))
MostRecentUpdate(rows) ==
    CHOOSE m \in { rows[k].updated_at : k \in 1..Len(rows) } :
        \A k \in 1..Len(rows) : rows[k].updated_at <= m

\* cachedRaces.length > 0 && new Date() - mostRecentUpdate < 5 * 60 * 1000
CacheIsRecent(cachedRaces, clock) ==
    /\ Len(cachedRaces) > 0
    /\ clock - MostRecentUpdate(cachedRaces) < CacheMinutes * MsPerMinute

\* no cached call yet
NoCachedResult ==
    [finished |-> FALSE, threw |-> FALSE, races |-> <<>>, total |-> 0, page |-> 0,
     limit |-> 0, at |-> 0, cacheRead |-> FALSE, cached |-> <<>>, fetched |-> FALSE,
     wrote |-> FALSE]

InitCached ==
    /\ now = 0
    /\ EnvIdle
    /\ SrvIdle
    /\ NormIdle
    /\ AuthIdle
    /\ official_races = <<>>
    /\ available_cars = <<>>
    /\ upsertLog = <<>>
    /\ returnsRows = TRUE
    /\ carsKeyed = FALSE
    /\ calls = [c \in CallIds |-> IdleCall]
    /\ started = 0
    /\ lastResult = NoCachedResult
    /\ reader = NoReader

\* time passes between two calls
CacheClockTick ==
    /\ started < MaxCacheTicks
    /\ started' = started + 1
    /\ \E step \in CacheSteps : now' = now + step
    /\ UNCHANGED <<envVars, srvVars, normVars, authVars, official_races, available_cars,
                   upsertLog, returnsRows, carsKeyed, calls, lastResult, reader>>

\* getOfficialRaces(page, limit) from entry to return: read the page from the
\* store (an error makes the call throw); serve it if it is recent; otherwise
\* fetch (a failure makes the call throw), upsert row by row (an error is
\* logged), read the page back (an error makes the call throw)
GetOfficialRacesCached ==
    \E page \in 1..2, limit \in 1..2, sessions \in CachedGuides, cacheOk \in BOOLEAN,
       upstreamOk \in BOOLEAN, storeOk \in BOOLEAN, readOk \in BOOLEAN :
      LET cachedRaces == RangeOf(OrderByStart(official_races), page, limit)
          races == OrderByStart([i \in 1..Len(sessions) |-> CachedRace(sessions[i], now)])
          table == IF storeOk THEN UpsertAllById(official_races, races) ELSE official_races
          call == [NoCachedResult EXCEPT !.finished = TRUE, !.page = page,
                                         !.limit = limit, !.at = now]
      IN  /\ IF ~cacheOk
             THEN /\ lastResult' = [call EXCEPT !.threw = TRUE]
                  /\ UNCHANGED official_races
             ELSE IF CacheIsRecent(cachedRaces, now)
             THEN /\ lastResult' =
                       IF readOk
                       THEN [call EXCEPT !.cacheRead = TRUE, !.cached = cachedRaces,
                                         !.races = cachedRaces,
                                         !.total = Len(official_races)]
                       ELSE [call EXCEPT !.cacheRead = TRUE, !.cached = cachedRaces,
                                         !.threw = TRUE]
                  /\ UNCHANGED official_races
             ELSE IF ~upstreamOk
             THEN /\ lastResult' = [call EXCEPT !.cacheRead = TRUE, !.cached = cachedRaces,
                                                !.fetched = TRUE, !.threw = TRUE]
                  /\ UNCHANGED official_races
             ELSE /\ official_races' = table
                  /\ lastResult' =
                       [call EXCEPT !.cacheRead = TRUE, !.cached = cachedRaces,
                                    !.fetched = TRUE,
                                    !.wrote = (storeOk /\ Len(races) > 0),
                                    !.threw = ~readOk,
                                    !.races = IF readOk
                                              THEN RangeOf(OrderByStart(table), page, limit)
                                              ELSE <<>>,
                                    !.total = IF readOk THEN Len(table) ELSE 0]
          /\ UNCHANGED <<now, envVars, srvVars, normVars, authVars, available_cars,
                         upsertLog, returnsRows, carsKeyed, calls, started, reader>>

NextCached ==
    \/ CacheClockTick
    \/ GetOfficialRacesCached

SpecCached == InitCached /\ [][NextCached]_vars

----------------------------------------------------------------------------
(* fetchRacesFromIRacingAPI: the upstream requests of a fetch cycle *)

\* what the requests of one cycle meet. guideHop, GET /data/season/race_guide:
\* the request fails, or resolves without a link, or with one. guideBody, GET
\* link: the request fails, or resolves with a null body, a body without
\* sessions, a body whose sessions is not an array, or the sessions. series,
\* tracks, cars (fetchSeriesData, fetchTrackData, fetchCarData): the first
\* request fails, resolves without a link, the second request fails, or the
\* catalog arrives
GuideHops == {"fails", "noLink", "link"}
GuideBodies == {"fails", "null", "noSessions", "notArray", "sessions"}
CatalogFetches == {"fails", "noLink", "linkFails", "ok"}

\* every request answered well
OkUpstream ==
    [guideHop |-> "link", guideBody |-> "sessions", series |-> "ok", tracks |-> "ok",
     cars |-> "ok"]

\* the cycles considered: all well, or one request answered otherwise
Upstreams ==
    { [OkUpstream EXCEPT !.guideHop = h] : h \in GuideHops }
    \cup { [OkUpstream EXCEPT !.guideBody = b] : b \in GuideBodies }
    \cup { [OkUpstream EXCEPT !.series = a] : a \in CatalogFetches }
    \cup { [OkUpstream EXCEPT !.tracks = a] : a \in CatalogFetches }
    \cup { [OkUpstream EXCEPT !.cars = a] : a \in CatalogFetches }

\* fetchSeriesData, fetchTrackData, fetchCarData: a rejected request and the
\* missing link both reach the catch clause, which rethrows
FetchCatalogThrows(answer) == answer # "ok"

\* the try block of fetchRacesFromIRacingAPI in the order of its statements:
\* [threw, races]
FetchTry(u, sessions, clocks) ==
    IF u.guideHop # "link" THEN [threw |-> TRUE, races |-> <<>>]
    ELSE IF u.guideBody = "fails" THEN [threw |-> TRUE, races |-> <<>>]
    ELSE IF FetchCatalogThrows(u.series) THEN [threw |-> TRUE, races |-> <<>>]
    ELSE IF FetchCatalogThrows(u.tracks) THEN [threw |-> TRUE, races |-> <<>>]
    ELSE IF FetchCatalogThrows(u.cars) THEN [threw |-> TRUE, races |-> <<>>]
    \* raceGuide.sessions.length of a null body or of undefined sessions
    ELSE IF u.guideBody \in {"null", "noSessions"} THEN [threw |-> TRUE, races |-> <<>>]
    \* raceData.map of a value that is not an array
    ELSE IF u.guideBody = "notArray" THEN [threw |-> TRUE, races |-> <<>>]
    ELSE LET r == processRaceData(sessions, SeriesCatalog, TrackCatalog, CarCatalog, clocks)
         IN  [threw |-> r.threwAt # 0, races |-> r.races]

\* a catch clause answering a failed cycle with an empty list
fetchRacesFromIRacingAPI_swallow(u, sessions, clocks) ==
    LET t == FetchTry(u, sessions, clocks)
    IN  IF t.threw THEN [threw |-> FALSE, races |-> <<>>] ELSE t

\* fetchRacesFromIRacingAPI(): the catch clause logs and rethrows
fetchRacesFromIRacingAPI(u, sessions, clocks) ==
    FetchTry(u, sessions, clocks)

CycleGuides == { <<>>, <<SessionA12>>, <<SessionA12, SessionU>> }

InitFetchCycle ==
    /\ now = 0
    /\ EnvIdle
    /\ SrvIdle
    /\ NormIdle
    /\ AuthIdle
    /\ StoreIdle

\* getOfficialRaces(userId, page, limit) up to its store request, the requests
\* of its fetch cycle meeting u: a throwing fetch leaves through the catch
\* clause (rethrow); an empty list skips the upsert and returns at once
CycleFetch(c) ==
    /\ calls[c].pc = "idle"
    /\ started < MaxCalls
    /\ started' = started + 1
    /\ \E pageArg \in PageArgs, limit \in LimitArgs, u \in Upstreams,
          sessions \in CycleGuides :
         LET page == ClampPage(pageArg)
             f == fetchRacesFromIRacingAPI(u, sessions, [i \in 1..Len(sessions) |-> now])
         IN  /\ lastCycle' = [ran |-> TRUE, threw |-> f.threw, upstream |-> u]
             /\ IF f.threw
                THEN /\ lastResult' = OfficialRacesThrew
                     /\ UNCHANGED calls
                ELSE IF Len(f.races) = 0
                THEN /\ lastResult' = OfficialRacesResult(f.races, page, limit)
                     /\ UNCHANGED calls
                ELSE /\ calls' = [calls EXCEPT ![c] =
                           [@ EXCEPT !.pc = "upsert", !.page = page, !.limit = limit,
                                     !.freshRaces = f.races]]
                     /\ UNCHANGED lastResult
    /\ UNCHANGED <<now, envVars, serving, lastRequest, reAuth, lastSearch, normVars,
                   authVars, official_races, available_cars, upsertLog, returnsRows,
                   carsKeyed, reader>>

NextFetchCycle ==
    \/ ClockTick
    \/ \E c \in CallIds : CycleFetch(c)
    \/ \E c \in CallIds : GetOfficialRacesUpsert(c)

SpecFetchCycle == InitFetchCycle /\ [][NextFetchCycle]_vars

----------------------------------------------------------------------------
(* login, verifyAuth *)

\* a Set-Cookie header value: a cookie the jar accepts, or a value it rejects
\* (setCookieSync throws on a value it cannot parse)
Cookie(k, v) == [key |-> k, value |-> v, valid |-> TRUE]
BadCookie == [key |-> "", value |-> "", valid |-> FALSE]

CookieValues == {"v1", "v2"}

\* the Set-Cookie lists an auth response may carry
SetCookieLists ==
    { <<Cookie("authtoken", v)>> : v \in CookieValues }
    \cup { <<Cookie("irsso", v), Cookie("authtoken", v)>> : v \in CookieValues }
    \cup { <<Cookie("authtoken", "v2"), BadCookie>>, <<BadCookie>> }

\* what instance.post(BASE_URL/auth) meets: status 0 stands for a network error
\* (no response); hasSetCookie: response.headers['set-cookie'] is present
AuthResponse(st, has, list) == [status |-> st, hasSetCookie |-> has, setCookie |-> list]

AuthResponses ==
    { AuthResponse(0, FALSE, <<>>), AuthResponse(401, FALSE, <<>>),
      AuthResponse(500, FALSE, <<>>), AuthResponse(200, FALSE, <<>>) }
    \cup { AuthResponse(200, TRUE, l) : l \in SetCookieLists }

\* axios resolves a request iff a response came with a 2xx status
\* (the default validateStatus); otherwise the await throws
AxiosResolves(status) == status >= 200 /\ status < 300

\* cookieJar.setCookieSync(cookie, BASE_URL): a cookie replaces the one with its key
SetCookieSync(jar, cookie) ==
    { c \in jar : c.key # cookie.key } \cup { [key |-> cookie.key, value |-> cookie.value] }

\* response.headers['set-cookie'].forEach(setCookieSync), from header i on:
\* the jar when the loop ends, and whether it ended by a throw
RECURSIVE SetCookiesFrom(_, _, _)
SetCookiesFrom(jar, list, i) ==
    IF i > Len(list) THEN [jar |-> jar, threw |-> FALSE]
    ELSE IF ~list[i].valid THEN [jar |-> jar, threw |-> TRUE]
    ELSE SetCookiesFrom(SetCookieSync(jar, list[i]), list, i + 1)

\* the try block of login: the jar it leaves and how it ends ("true": return
\* true; "throw": an error reaches the catch clause)
LoginTry(jar, resp) ==
    IF ~AxiosResolves(resp.status) THEN [jar |-> jar, ends |-> "throw"]
    ELSE IF resp.hasSetCookie
         THEN LET r == SetCookiesFrom(jar, resp.setCookie, 1)
              IN  [jar |-> r.jar, ends |-> IF r.threw THEN "throw" ELSE "true"]
         ELSE [jar |-> jar, ends |-> "throw"]

\* the catch clause of login: log, return false
LoginCatch(t) ==
    [jar |-> t.jar, returned |-> t.ends = "true", threw |-> FALSE]

\* hashPassword(password, email) evaluates email.toLowerCase(), a TypeError
\* when email is undefined (password + ... accepts an undefined password)
HashPasswordThrows(emailDefined) == ~emailDefined

\* login(email, password), the auth request meeting resp: [jar, returned,
\* threw]. hashPassword is called before the try block, so what it throws
\* leaves login
login(jar, resp, emailDefined) ==
    IF HashPasswordThrows(emailDefined)
    THEN [jar |-> jar, returned |-> FALSE, threw |-> TRUE]
    ELSE LoginCatch(LoginTry(jar, resp))

\* the statuses the probe GET /data/doc may meet (0: network error)
ProbeStatuses == {0, 200, 204, 401, 500}

\* verifyAuth accepting every resolved response
verifyAuth_any2xx(status) ==
    IF ~AxiosResolves(status) THEN [returned |-> FALSE, threw |-> FALSE]
    ELSE [returned |-> TRUE, threw |-> FALSE]

\* verifyAuth(), the probe meeting `status`: a rejected request lands in the
\* catch clause, which returns false; a resolved one gives status === 200
verifyAuth(status) ==
    IF ~AxiosResolves(status) THEN [returned |-> FALSE, threw |-> FALSE]
    ELSE [returned |-> status = 200, threw |-> FALSE]

----------------------------------------------------------------------------
(* attemptLogin: the server's bounded login retry *)

\* the retry test with the bound off by one
ShouldRetry_offByOne(attempts, maxAttempts) == attempts < maxAttempts

\* attempts < MAX_LOGIN_ATTEMPTS - 1
ShouldRetry(attempts, maxAttempts) == attempts < maxAttempts - 1

\* the authtoken values an auth response hands out: the upstream takes each
\* for a live session from then on
IssuedTokens(resp) ==
    IF AxiosResolves(resp.status) /\ resp.hasSetCookie
    THEN { resp.setCookie[i].value :
             i \in { k \in 1..Len(resp.setCookie) :
                       resp.setCookie[k].valid /\ resp.setCookie[k].key = "authtoken" } }
    ELSE {}

\* attemptLogin leaving by a throw with its try/catch removed
AttemptLoginRejects_noCatch(r) == r.threw

\* whether attemptLogin rejects when its login call ended as r: the call is
\* inside try, and the catch clause retries or returns false
AttemptLoginRejects(r) == FALSE

\* the server starts listening and calls attemptLogin()
InitAuth ==
    /\ now = 0
    /\ EnvIdle
    /\ SrvIdle
    /\ NormIdle
    /\ StoreIdle
    /\ cookieJar = {}
    /\ maxLoginAttempts \in 1..MaxLoginBound
    /\ emailSet \in BOOLEAN
    /\ alPc = "login"
    /\ alAttempts = 0
    /\ alOutcomes = <<>>
    /\ alDelays = 0
    /\ alResult = FALSE
    /\ lastLogin = NoLogin
    /\ lastVerify = NoVerify

\* attemptLogin(attempts): await login(process.env.IRACING_EMAIL, ...), the
\* request (when login gets to send it) meeting any response; return true on
\* success, otherwise (login returned false, or threw) retry after the delay or
\* give up
AttemptLoginCall ==
    /\ alPc = "login"
    /\ \E resp \in (IF emailSet THEN AuthResponses ELSE {NoLogin.resp}) :
         LET r == login(cookieJar, resp, emailSet)
             ok == r.returned /\ ~r.threw
         IN  /\ cookieJar' = r.jar
             /\ lastLogin' = [called |-> TRUE, resp |-> resp, jarBefore |-> cookieJar,
                              returned |-> r.returned, threw |-> r.threw]
             /\ alOutcomes' = Append(alOutcomes, ok)
             /\ validTokens' = validTokens \cup IssuedTokens(resp)
             /\ serving' = (serving /\ ~AttemptLoginRejects(r))
             /\ IF ok
                THEN /\ alResult' = TRUE
                     /\ alPc' = "done"
                ELSE IF ShouldRetry(alAttempts, maxLoginAttempts)
                THEN /\ alPc' = "delay"
                     /\ UNCHANGED alResult
                ELSE /\ alResult' = FALSE
                     /\ alPc' = "done"
    /\ UNCHANGED <<now, accepting, lastRequest, reAuth, lastSearch, lastCycle, normVars,
                   storeVars, maxLoginAttempts, emailSet, alAttempts, alDelays, lastVerify>>

\* the LOGIN_RETRY_DELAY timer fires: return attemptLogin(attempts + 1)
AttemptLoginDelay ==
    /\ alPc = "delay"
    /\ alDelays' = alDelays + 1
    /\ alAttempts' = alAttempts + 1
    /\ alPc' = "login"
    /\ UNCHANGED <<now, envVars, srvVars, normVars, storeVars, cookieJar, maxLoginAttempts, emailSet,
                   alOutcomes, alResult, lastLogin, lastVerify>>

\* a call of verifyAuth(), the probe meeting any status
CallVerifyAuth ==
    /\ \E status \in ProbeStatuses :
         LET r == verifyAuth(status)
         IN  lastVerify' = [called |-> TRUE, status |-> status,
                            returned |-> r.returned, threw |-> r.threw]
    /\ UNCHANGED <<now, envVars, srvVars, normVars, storeVars, cookieJar, maxLoginAttempts, emailSet, alPc,
                   alAttempts, alOutcomes, alDelays, alResult, lastLogin>>

NextAuth == AttemptLoginCall \/ AttemptLoginDelay \/ CallVerifyAuth

SpecAuth == InitAuth /\ [][NextAuth]_vars

----------------------------------------------------------------------------
(* searchIRacingName: the driver lookup *)

\* names are sequences of letters; String.prototype.toLowerCase letter by letter
LowerOf == [c \in {"a", "A", "b", "B"} |-> IF c \in {"a", "A"} THEN "a" ELSE "b"]
toLowerCase(str) == [k \in 1..Len(str) |-> LowerOf[str[k]]]

\* String.prototype.includes: needle occurs in hay as a substring
includes(hay, needle) ==
    \E from \in 0..(Len(hay) - Len(needle)) :
        \A k \in 1..Len(needle) : hay[from + k] = needle[k]

\* the value of req.query.name handed to searchIRacingName: a string, or (for a
\* repeated query parameter) an array of strings, which has no toLowerCase
QueryString(chars) == [isString |-> TRUE, chars |-> chars]
QueryArray == [isString |-> FALSE, chars |-> <<>>]

\* an element of the drivers list of the lookup
Driver(displayName, custId) == [display_name |-> displayName, cust_id |-> custId]

\* what GET /data/lookup/drivers meets: the request fails, or resolves with a
\* body without link, or with a link; and what GET link meets: the request
\* fails, or resolves with a body that is not an array, or with a drivers array
LookupAnswer(firstHop, secondHop, drivers) ==
    [firstHop |-> firstHop, secondHop |-> secondHop, drivers |-> drivers]

\* the predicate of drivers.find applied to one driver: true/false, or a throw
\* when name.toLowerCase is not a function
MatchesDriver(driver, name) ==
    IF ~name.isString THEN "throw"
    ELSE IF \/ toLowerCase(driver.display_name) = toLowerCase(name.chars)
            \/ includes(toLowerCase(driver.display_name), toLowerCase(name.chars))
         THEN "true" ELSE "false"

SearchThrew == [exists |-> FALSE, name |-> <<>>, id |-> 0, threw |-> TRUE]
SearchMiss == [exists |-> FALSE, name |-> <<>>, id |-> 0, threw |-> FALSE]

\* searchIRacingName(name), the upstream answering `answer`: the first driver
\* the predicate accepts, {exists: false} without one; every throw inside the
\* try block is logged and rethrown
searchIRacingName(name, answer) ==
    IF answer.firstHop = "fails" THEN SearchThrew
    ELSE IF answer.firstHop = "noLink" THEN SearchMiss
    ELSE IF answer.secondHop = "fails" THEN SearchThrew
    ELSE LET drivers == IF answer.secondHop = "array" THEN answer.drivers ELSE <<>>
             hits == { i \in 1..Len(drivers) : MatchesDriver(drivers[i], name) # "false" }
         IN  IF hits = {} THEN SearchMiss
             ELSE LET first == drivers[Min(hits)]
                  IN  IF MatchesDriver(first, name) = "throw" THEN SearchThrew
                      ELSE [exists |-> TRUE, name |-> first.display_name,
                            id |-> first.cust_id, threw |-> FALSE]

\* the names searched for and the drivers the upstream may list
SearchedNames == { QueryString(<<"a", "b">>), QueryString(<<"A", "B">>),
                   QueryString(<<"b">>), QueryArray }
DriverPool == { Driver(<<"A", "b">>, 1), Driver(<<"a", "b", "a">>, 2),
                Driver(<<"B", "a", "B">>, 3), Driver(<<"a", "a">>, 4) }

LookupAnswers ==
    { LookupAnswer("fails", "none", <<>>), LookupAnswer("noLink", "none", <<>>),
      LookupAnswer("link", "fails", <<>>), LookupAnswer("link", "notArray", <<>>) }
    \cup { LookupAnswer("link", "array", d) : d \in SeqsUpTo(DriverPool, MaxDrivers) }

InitSearch ==
    /\ now = 0
    /\ EnvIdle
    /\ NormIdle
    /\ AuthIdle
    /\ StoreIdle
    /\ serving = TRUE
    /\ lastRequest = NoRequest
    /\ reAuth = NoReAuth
    /\ lastCycle = NoCycle
    /\ \E name \in SearchedNames, answer \in LookupAnswers :
         lastSearch = [called |-> FALSE, name |-> name, answer |-> answer,
                       result |-> SearchMiss]

\* the call searchIRacingName(name)
CallSearchIRacingName ==
    /\ ~lastSearch.called
    /\ lastSearch' = [lastSearch EXCEPT
            !.called = TRUE,
            !.result = searchIRacingName(lastSearch.name, lastSearch.answer)]
    /\ UNCHANGED <<now, envVars, normVars, authVars, storeVars, serving, lastRequest,
                   reAuth, lastCycle>>

NextSearch == CallSearchIRacingName

SpecSearch == InitSearch /\ [][NextSearch]_vars

----------------------------------------------------------------------------
(* The HTTP server: the routes of server.js behind checkAuth *)

Routes == {"/api/health", "/api/official-races", "/api/search-iracing-name"}
GatedRoutes == {"/api/official-races", "/api/search-iracing-name"}

\* the jar holds a session cookie the upstream takes for live
SessionLive(jar, tokens) ==
    \E c \in jar : c.key = "authtoken" /\ c.value \in tokens

\* what the probe GET /data/doc may meet with the cookies of the jar: a network
\* error (0), an upstream error (500), else 200 with a live session and 401
\* without one
ProbeAnswers(jar, tokens) ==
    {0, 500} \cup (IF SessionLive(jar, tokens) THEN {200} ELSE {401})

\* a middleware that calls next() whatever verifyAuth returned
checkAuth_alwaysNext(v) == [next |-> TRUE, status |-> 0]

\* checkAuth, verifyAuth having ended as v: next() when it returned true, 401
\* when it returned false, 500 when it threw
checkAuth(v) ==
    IF v.threw THEN [next |-> FALSE, status |-> 500]
    ELSE IF v.returned THEN [next |-> TRUE, status |-> 0]
    ELSE [next |-> FALSE, status |-> 401]

\* the race guides and lookup answers the server's handlers meet
ServerGuides == { <<>>, <<SessionA12>> }
ServerLookups ==
    { LookupAnswer("fails", "none", <<>>),
      LookupAnswer("link", "array", <<Driver(<<"A", "b">>, 1)>>) }
ServerNames == { QueryString(<<"a", "b">>), QueryArray }

\* limit of a request without query parameters: parseInt(undefined) || 10 (the
\* page, parseInt(undefined) || 1, is handed over as userId and not used)
DefaultLimit == 10

\* the record of a handled request: the route, what verifyAuth returned for it,
\* the status answered, whether the route handler ran, the upstream data
\* requests and store writes it made, and whether attemptLogin had returned
\* false by then
Handled(route, verified, status, ran, dataRequests, storeWrites) ==
    [handled |-> TRUE, route |-> route, verified |-> verified, status |-> status,
     handlerRan |-> ran, dataRequests |-> dataRequests, storeWrites |-> storeWrites,
     loginGaveUp |-> (alPc = "done" /\ ~alResult)]

InitServer ==
    /\ now = 0
    /\ EnvIdle
    /\ SrvIdle
    /\ NormIdle
    /\ StoreIdle
    /\ cookieJar = {}
    /\ maxLoginAttempts = ServerLoginAttempts
    /\ emailSet \in BOOLEAN
    /\ alPc = "login"
    /\ alAttempts = 0
    /\ alOutcomes = <<>>
    /\ alDelays = 0
    /\ alResult = FALSE
    /\ lastLogin = NoLogin
    /\ lastVerify = NoVerify

\* GET /api/health: answered without checkAuth
HandleHealth ==
    /\ serving
    /\ lastRequest' = Handled("/api/health", FALSE, 200, TRUE, 0, 0)
    /\ UNCHANGED <<now, envVars, serving, reAuth, lastSearch, lastCycle, normVars,
                   authVars, storeVars>>

\* the handler of GET /api/official-races, after checkAuth called next():
\* getOfficialRaces(page, limit), whose parameters are (userId, page, limit), so
\* the page arrives as userId and the limit as page; a throw is answered 500
OfficialRacesHandler(route) ==
    /\ started < MaxCalls
    /\ started' = started + 1
    /\ \E upstreamOk \in BOOLEAN, storeOk \in BOOLEAN, sessions \in ServerGuides :
         LET r == processRaceData(sessions, SeriesCatalog, TrackCatalog, CarCatalog,
                                  [i \in 1..Len(sessions) |-> now])
             stored == Len(r.races) > 0 /\ storeOk /\ ~WritesRowTwice(r.races)
         IN  IF ~upstreamOk \/ r.threwAt # 0
             THEN /\ lastResult' = OfficialRacesThrew
                  /\ lastRequest' = Handled(route, TRUE, 500, TRUE, 1, 0)
                  /\ UNCHANGED <<official_races, upsertLog>>
             ELSE /\ lastResult' = OfficialRacesResult(r.races, ClampPage(DefaultLimit),
                                                       DefaultLimit)
                  /\ lastRequest' = Handled(route, TRUE, 200, TRUE, 1,
                                            IF stored THEN 1 ELSE 0)
                  /\ IF stored
                     THEN /\ official_races' = UpsertRows(official_races, r.races)
                          /\ upsertLog' = Append(upsertLog, r.races)
                     ELSE UNCHANGED <<official_races, upsertLog>>
    /\ UNCHANGED <<available_cars, returnsRows, carsKeyed, calls, reader, lastSearch>>

\* the handler of GET /api/search-iracing-name, after checkAuth called next():
\* 400 without a name, else searchIRacingName(name); a throw is answered 500
SearchHandler(route) ==
    /\ \/ /\ lastRequest' = Handled(route, TRUE, 400, TRUE, 0, 0)
          /\ UNCHANGED lastSearch
       \/ \E name \in ServerNames, answer \in ServerLookups :
            LET res == searchIRacingName(name, answer)
            IN  /\ lastSearch' = [called |-> TRUE, name |-> name, answer |-> answer,
                                  result |-> res]
                /\ lastRequest' = Handled(route, TRUE, IF res.threw THEN 500 ELSE 200,
                                          TRUE, 1, 0)
    /\ UNCHANGED storeVars

\* a request to a route behind checkAuth, from the middleware to the response
HandleGated(route) ==
    /\ serving
    /\ route \in GatedRoutes
    /\ \E probe \in ProbeAnswers(cookieJar, validTokens) :
         LET v == verifyAuth(probe)
             gate == checkAuth(v)
         IN  /\ lastVerify' = [called |-> TRUE, status |-> probe,
                               returned |-> v.returned, threw |-> v.threw]
             /\ IF ~gate.next
                THEN /\ lastRequest' = Handled(route, v.returned, gate.status, FALSE, 0, 0)
                     /\ UNCHANGED <<storeVars, lastSearch>>
                ELSE IF route = "/api/official-races"
                THEN OfficialRacesHandler(route)
                ELSE SearchHandler(route)
    /\ UNCHANGED <<now, envVars, serving, reAuth, lastCycle, normVars, cookieJar,
                   maxLoginAttempts, emailSet, alPc, alAttempts, alOutcomes, alDelays,
                   alResult, lastLogin>>

\* the upstream ends a session
SessionExpires ==
    /\ \E t \in validTokens : validTokens' = validTokens \ {t}
    /\ UNCHANGED <<now, accepting, srvVars, normVars, authVars, storeVars>>

NextServer ==
    \/ AttemptLoginCall
    \/ AttemptLoginDelay
    \/ HandleHealth
    \/ \E route \in GatedRoutes : HandleGated(route)
    \/ SessionExpires

SpecServer == InitServer /\ [][NextServer]_vars

(* GET /api/official-races with query parameters, and both getOfficialRaces *)

\* largest absolute value of a numeric query parameter
MaxQuery == 3

\* page of a request without a page parameter: parseInt(undefined) || 1
DefaultPage == 1

\* a query parameter: absent, a text that is no number, or the digits of n
QueryAbsent == [present |-> FALSE, numeric |-> FALSE, n |-> 0]
QueryText == [present |-> TRUE, numeric |-> FALSE, n |-> 0]
QueryNumber(n) == [present |-> TRUE, numeric |-> TRUE, n |-> n]
QueryValues ==
    {QueryAbsent, QueryText} \cup { QueryNumber(n) : n \in (0 - MaxQuery)..MaxQuery }

\* parseInt(value) || fallback: NaN (no value, no digits) and 0 are falsy
parseIntOr(value, fallback) == IF ~value.numeric \/ value.n = 0 THEN fallback ELSE value.n

\* the arguments of the call getOfficialRaces(page, limit) of the route
RouteArguments(query) ==
    << parseIntOr(query.page, DefaultPage), parseIntOr(query.limit, DefaultLimit) >>

\* getOfficialRaces(page = 1, limit = 10) called with two arguments
BindPageLimit(args) == [page |-> args[1], limit |-> args[2]]

\* getOfficialRaces(userId, page = 1, limit = 10) called with two arguments:
\* the first is userId, the second page, and limit takes its default
BindUserIdPageLimit(args) == [page |-> args[2], limit |-> DefaultLimit]

\* .range(from, to) of the ordered rows: rows from..to when the range is one
\* (0 <= from <= to); the outcome of any other range is the store's to decide
RangeRows(rows, from, to) ==
    LET upto == Min({to + 1, Len(rows)})
    IN  IF from < 0 \/ upto <= from THEN <<>>
        ELSE [k \in 1..(upto - from) |-> rows[from + k]]

\* the two declarations of getOfficialRaces
Declarations == {"page, limit", "userId, page, limit"}

\* no request to the route yet
NoRouteRequest ==
    [handled |-> FALSE, declaration |-> "", query |-> [page |-> QueryAbsent,
     limit |-> QueryAbsent], status |-> 0, paged |-> FALSE, pageSize |-> 0,
     resultSet |-> <<>>]

\* one request is about to be handled: its query, the race guide the upstream
\* lists, and the declaration of getOfficialRaces in effect
InitRoute ==
    /\ now = 0
    /\ EnvIdle
    /\ NormIdle
    /\ AuthIdle
    /\ official_races = <<>>
    /\ available_cars = <<>>
    /\ upsertLog = <<>>
    /\ returnsRows = TRUE
    /\ carsKeyed = FALSE
    /\ calls = [c \in CallIds |-> IdleCall]
    /\ started = 0
    /\ lastResult = NoResult
    /\ serving = TRUE
    /\ reAuth = NoReAuth
    /\ lastSearch = NoSearch
    /\ lastCycle = NoCycle
    /\ \E declaration \in Declarations, page \in QueryValues, limit \in QueryValues :
         lastRequest = [NoRouteRequest EXCEPT !.declaration = declaration,
                                              !.query = [page |-> page, limit |-> limit]]
    /\ \E guide \in (IF lastRequest.declaration = "page, limit"
                     THEN CachedGuides ELSE PagingGuides) :
         reader = [NoReader EXCEPT !.guide = guide]

\* the route handler with getOfficialRaces(userId, page, limit): the page is
\* sliced from the fresh list; a throw is answered 500
HandleOfficialRacesFresh ==
    /\ ~lastRequest.handled
    /\ lastRequest.declaration = "userId, page, limit"
    /\ \E upstreamOk \in BOOLEAN, storeOk \in BOOLEAN :
         LET a == BindUserIdPageLimit(RouteArguments(lastRequest.query))
             page == ClampPage(a.page)
             r == processRaceData(reader.guide, SeriesCatalog, TrackCatalog, CarCatalog,
                                  [i \in 1..Len(reader.guide) |-> now])
         IN  IF ~upstreamOk \/ r.threwAt # 0
             THEN /\ lastResult' = OfficialRacesThrew
                  /\ lastRequest' = [lastRequest EXCEPT !.handled = TRUE, !.status = 500]
                  /\ UNCHANGED <<official_races, upsertLog>>
             ELSE /\ IF Len(r.races) > 0 /\ storeOk /\ ~WritesRowTwice(r.races)
                     THEN /\ official_races' = UpsertRows(official_races, r.races)
                          /\ upsertLog' = Append(upsertLog, r.races)
                     ELSE UNCHANGED <<official_races, upsertLog>>
                  /\ lastResult' = OfficialRacesResult(r.races, page, a.limit)
                  /\ lastRequest' = [lastRequest EXCEPT !.handled = TRUE, !.status = 200,
                                        !.paged = TRUE, !.pageSize = a.limit,
                                        !.resultSet = r.races]
    /\ UNCHANGED <<now, envVars, normVars, authVars, available_cars, returnsRows, carsKeyed,
                   calls, started, reader, serving, reAuth, lastSearch, lastCycle>>

\* the route handler with getOfficialRaces(page, limit): the fresh list is
\* upserted on id (an error is logged) and the page is read back from the
\* store in start_time order; a failed fetch or read is answered 500 (a range
\* that is none is refused or served empty, as the store decides)
HandleOfficialRacesStored ==
    /\ ~lastRequest.handled
    /\ lastRequest.declaration = "page, limit"
    /\ \E upstreamOk \in BOOLEAN, storeOk \in BOOLEAN, readOk \in BOOLEAN,
          servesNoRange \in BOOLEAN :
         LET a == BindPageLimit(RouteArguments(lastRequest.query))
             page == ClampPage(a.page)
             freshRaces == [i \in 1..Len(reader.guide) |-> CachedRace(reader.guide[i], now)]
             table == IF Len(freshRaces) > 0 /\ storeOk
                      THEN UpsertAllById(official_races, freshRaces) ELSE official_races
             rows == OrderByStart(table)
             from == (page - 1) * a.limit
             to == page * a.limit - 1
         IN  IF ~upstreamOk
             THEN /\ lastResult' = OfficialRacesThrew
                  /\ lastRequest' = [lastRequest EXCEPT !.handled = TRUE, !.status = 500]
                  /\ UNCHANGED official_races
             ELSE /\ official_races' = table
                  /\ IF readOk /\ ((from >= 0 /\ to >= from) \/ servesNoRange)
                     THEN /\ lastResult' = [ finished |-> TRUE, threw |-> FALSE,
                                             races |-> RangeRows(rows, from, to),
                                             total |-> Len(rows), page |-> page,
                                             limit |-> a.limit ]
                          /\ lastRequest' = [lastRequest EXCEPT
                                                !.handled = TRUE, !.status = 200,
                                                !.paged = TRUE, !.pageSize = a.limit,
                                                !.resultSet = rows]
                     ELSE /\ lastResult' = OfficialRacesThrew
                          /\ lastRequest' = [lastRequest EXCEPT
                                                !.handled = TRUE, !.status = 500,
                                                !.paged = TRUE, !.pageSize = a.limit,
                                                !.resultSet = rows]
    /\ UNCHANGED <<now, envVars, normVars, authVars, available_cars, upsertLog, returnsRows,
                   carsKeyed, calls, started, reader, serving, reAuth, lastSearch, lastCycle>>

NextRoute ==
    \/ HandleOfficialRacesFresh
    \/ HandleOfficialRacesStored

SpecRoute == InitRoute /\ [][NextRoute]_vars

----------------------------------------------------------------------------
(* periodicReAuth: the initial login at module load and the re-auth timer *)

\* the auth responses of an upstream that accepts the credentials (it answers
\* with a session cookie) and of one that does not, or cannot be reached
ReAuthResponses(accepts) ==
    IF accepts THEN { r \in AuthResponses : IssuedTokens(r) # {} }
    ELSE { r \in AuthResponses : IssuedTokens(r) = {} }

\* a run that logs in whatever verifyAuth returned
NeedsLogin_always(isAuthenticated) == TRUE

\* a run that never logs in
NeedsLogin_never(isAuthenticated) == FALSE

\* if (!isAuthenticated)
NeedsLogin(isAuthenticated) == ~isAuthenticated

\* whether periodicReAuth (and the initial login) rejects when its login call
\* ended as r: the whole body is inside try, the catch clause logs
PeriodicReAuthRejects(r) == FALSE

\* the module is loaded: no session, no login yet; the upstream may or may not
\* accept the credentials, IRACING_EMAIL may be unset
InitReAuth ==
    /\ now = 0
    /\ validTokens = {}
    /\ accepting \in BOOLEAN
    /\ SrvIdle
    /\ NormIdle
    /\ StoreIdle
    /\ cookieJar = {}
    /\ maxLoginAttempts = MaxLoginBound
    /\ emailSet \in BOOLEAN
    /\ alPc = "done"
    /\ alAttempts = 0
    /\ alOutcomes = <<>>
    /\ alDelays = 0
    /\ alResult = FALSE
    /\ lastLogin = NoLogin
    /\ lastVerify = NoVerify

\* await login(process.env.IRACING_EMAIL, process.env.IRACING_PASSWORD) as both
\* the initial login and a timer run make it: the jar, the tokens the upstream
\* handed out, and the record of the call
LoginStep(resp, r) ==
    /\ cookieJar' = r.jar
    /\ validTokens' = validTokens \cup IssuedTokens(resp)
    /\ lastLogin' = [called |-> TRUE, resp |-> resp, jarBefore |-> cookieJar,
                     returned |-> r.returned, threw |-> r.threw]
    /\ serving' = (serving /\ ~PeriodicReAuthRejects(r))

\* the initial login at module load
InitialLogin ==
    /\ ~lastLogin.called
    /\ \E resp \in (IF emailSet THEN ReAuthResponses(accepting) ELSE {NoLogin.resp}) :
         LoginStep(resp, login(cookieJar, resp, emailSet))
    /\ UNCHANGED <<now, accepting, lastRequest, reAuth, lastSearch, lastCycle, normVars,
                   storeVars, maxLoginAttempts, emailSet, alPc, alAttempts, alOutcomes,
                   alDelays, alResult, lastVerify>>

\* the RE_AUTH_INTERVAL timer fires: const isAuthenticated = await verifyAuth()
\* with the cookies of the jar; the run ends here unless it has to log in
ReAuthVerify ==
    /\ lastLogin.called
    /\ reAuth.pc = "idle"
    /\ \E status \in ProbeAnswers(cookieJar, validTokens) :
         LET v == verifyAuth(status)
         IN  /\ lastVerify' = [called |-> TRUE, status |-> status,
                               returned |-> v.returned, threw |-> v.threw]
             /\ reAuth' = [pc |-> IF NeedsLogin(v.returned) THEN "login" ELSE "idle",
                           runs |-> IF reAuth.runs < MaxRuns THEN reAuth.runs + 1
                                    ELSE reAuth.runs,
                           verified |-> v.returned, loginCalled |-> FALSE,
                           loginReturned |-> FALSE, loginThrew |-> FALSE,
                           rejected |-> FALSE]
    /\ UNCHANGED <<now, envVars, serving, lastRequest, lastSearch, lastCycle, normVars,
                   storeVars, cookieJar, maxLoginAttempts, emailSet, alPc, alAttempts,
                   alOutcomes, alDelays, alResult, lastLogin>>

\* the rest of the run: await login(...), inside the try block
ReAuthLogin ==
    /\ reAuth.pc = "login"
    /\ \E resp \in (IF emailSet THEN ReAuthResponses(accepting) ELSE {NoLogin.resp}) :
         LET r == login(cookieJar, resp, emailSet)
         IN  /\ LoginStep(resp, r)
             /\ reAuth' = [reAuth EXCEPT !.pc = "idle", !.loginCalled = TRUE,
                                         !.loginReturned = r.returned,
                                         !.loginThrew = r.threw,
                                         !.rejected = PeriodicReAuthRejects(r)]
    /\ UNCHANGED <<now, accepting, lastRequest, lastSearch, lastCycle, normVars,
                   storeVars, maxLoginAttempts, emailSet, alPc, alAttempts, alOutcomes,
                   alDelays, alResult, lastVerify>>

\* the upstream starts or stops accepting the credentials
UpstreamChanges ==
    /\ accepting' = ~accepting
    /\ UNCHANGED <<now, validTokens, srvVars, normVars, authVars, storeVars>>

NextReAuth ==
    \/ InitialLogin
    \/ ReAuthVerify
    \/ ReAuthLogin
    \/ SessionExpires
    \/ UpstreamChanges

SpecReAuth == InitReAuth /\ [][NextReAuth]_vars

\* setInterval keeps firing and every request of a run ends (axios resolves or
\* rejects it), so no step of the task stays enabled for ever without running
FairSpecReAuth ==
    /\ SpecReAuth
    /\ WF_vars(InitialLogin)
    /\ WF_vars(ReAuthVerify)
    /\ WF_vars(ReAuthLogin)

(* Requests in flight: the awaits on instance.get and instance.post *)

\* the requests of one fetchRacesFromIRacingAPI, in the order it awaits them:
\* race guide, series, tracks and cars, each a first hop to BASE_URL and a
\* second hop to the link of the first answer
FetchHops == <<"race_guide", "race_guide link", "series/get", "series/get link",
               "track/get", "track/get link", "car/get", "car/get link">>

\* the first hops go out with headers: { 'Cookie': cookieString }, the second
\* hops (instance.get(response.data.link)) with no Cookie header
CarriesCookie(hop) == hop % 2 = 1

\* cookies.map(cookie => `${cookie.key}=${cookie.value}`).join('; ') over the
\* cookies cookieJar.getCookies(BASE_URL) resolves with: the key=value pairs
cookieString(jar) == { <<c.key, c.value>> : c \in jar }

\* a fetch that was called and has issued no request yet
CalledFetch == [pc |-> "called", hop |-> 0, Cookie |-> {}, threw |-> FALSE]
\* no fetch
NoFetch == [pc |-> "idle", hop |-> 0, Cookie |-> {}, threw |-> FALSE]

\* the module is loaded, no login was made, one fetch was called
InitInFlight ==
    /\ now = 0
    /\ EnvIdle
    /\ SrvIdle
    /\ NormIdle
    /\ AuthIdle
    /\ official_races = <<>>
    /\ available_cars = <<>>
    /\ upsertLog = <<>>
    /\ returnsRows = TRUE
    /\ carsKeyed = FALSE
    /\ started = 0
    /\ lastResult = NoResult
    /\ reader = NoReader
    /\ calls = [c \in CallIds |-> IF c = 1 THEN CalledFetch ELSE NoFetch]

\* login up to its await: instance.post(BASE_URL/auth) is issued (by the
\* initial login, a timer run or attemptLogin)
IssueLogin ==
    /\ reAuth.pc = "idle"
    /\ reAuth' = [reAuth EXCEPT !.pc = "login"]
    /\ UNCHANGED <<now, envVars, normVars, authVars, storeVars, serving, lastRequest,
                   lastSearch, lastCycle>>

\* the upstream answers the auth request: the rest of login runs without
\* another request (the forEach over set-cookie calls setCookieSync)
LoginAnswered ==
    /\ reAuth.pc = "login"
    /\ \E resp \in AuthResponses : cookieJar' = login(cookieJar, resp, emailSet).jar
    /\ reAuth' = [reAuth EXCEPT !.pc = "idle"]
    /\ UNCHANGED <<now, envVars, normVars, storeVars, serving, lastRequest, lastSearch,
                   lastCycle, maxLoginAttempts, emailSet, alPc, alAttempts, alOutcomes,
                   alDelays, alResult, lastLogin, lastVerify>>

\* the fetch up to its next await: for a first hop it reads the jar and builds
\* the Cookie header, then instance.get is issued
IssueRequest(c) ==
    /\ calls[c].pc \in {"called", "resumed"}
    /\ LET hop == calls[c].hop + 1
       IN  calls' = [calls EXCEPT ![c] =
                        [@ EXCEPT !.pc = "awaiting", !.hop = hop,
                                  !.Cookie = IF CarriesCookie(hop)
                                             THEN cookieString(cookieJar) ELSE @]]
    /\ UNCHANGED <<now, envVars, normVars, authVars, srvVars, official_races,
                   available_cars, upsertLog, returnsRows, carsKeyed, started,
                   lastResult, reader>>

\* the upstream answers the request awaited: a rejected request (or a first
\* answer without link) makes the fetch throw, the answer to the last request
\* lets it return, any other lets it go on to the next request
UpstreamAnswers(c) ==
    /\ calls[c].pc = "awaiting"
    /\ \E ok \in BOOLEAN :
         calls' = [calls EXCEPT ![c] =
                     IF ~ok THEN [@ EXCEPT !.pc = "returned", !.threw = TRUE]
                     ELSE IF @.hop = Len(FetchHops) THEN [@ EXCEPT !.pc = "returned"]
                     ELSE [@ EXCEPT !.pc = "resumed"]]
    /\ UNCHANGED <<now, envVars, normVars, authVars, srvVars, official_races,
                   available_cars, upsertLog, returnsRows, carsKeyed, started,
                   lastResult, reader>>

NextInFlight ==
    \/ IssueLogin
    \/ LoginAnswered
    \/ \E c \in CallIds : IssueRequest(c)
    \/ \E c \in CallIds : UpstreamAnswers(c)

SpecInFlight == InitInFlight /\ [][NextInFlight]_vars

\* the event loop runs every continuation that is ready, so the program's own
\* steps are taken; instance is created with an httpsAgent only, so nothing in
\* the program ends an await the upstream leaves unanswered, and the answers
\* are the upstream's to give
FairSpecInFlight ==
    /\ SpecInFlight
    /\ WF_vars(IssueLogin)
    /\ \A c \in CallIds : WF_vars(IssueRequest(c))

(* The two-hop fetch: a request to BASE_URL, then a GET of the returned link *)

\* the operations that fetch in two hops and throw on a first answer without link
TwoHopPaths == {"season/race_guide", "series/get", "track/get", "car/get"}

\* the first answer with a link, and the bodies the link may resolve with
Envelope == [link |-> "https://link"]
LinkBodies == { [rows |-> n] : n \in 0..2 }

\* what the two requests meet: the first fails, resolves without link or with
\* one; the second fails or resolves with a body
HopAnswer(firstHop, secondHop, body) ==
    [firstHop |-> firstHop, secondHop |-> secondHop, body |-> body]
HopAnswers ==
    { HopAnswer("fails", "none", [rows |-> 0]), HopAnswer("noLink", "none", [rows |-> 0]),
      HopAnswer("link", "fails", [rows |-> 0]) }
    \cup { HopAnswer("link", "body", b) : b \in LinkBodies }

\* the jars two logins in a row may leave
JarsAfterLogins ==
    { login(login({}, r1, TRUE).jar, r2, TRUE).jar : r1, r2 \in AuthResponses }

\* a follow-up request that is handed the cookie string as well
FollowUpCookie_forwarded(jar) == cookieString(jar)

\* instance.get(response.data.link): no headers are passed, and instance has
\* neither default headers nor a jar, so the request carries no cookie
FollowUpCookie(jar) == {}

\* return seriesDataResponse.data (raceGuide = raceGuideDataResponse.data)
FetchedData(answer) == answer.body

\* one two-hop fetch with the jar holding `jar`: the requests it issues, whether
\* it throws, and the data it yields
TwoHopFetch(path, jar, answer) ==
    LET first == [url |-> <<"BASE_URL", path>>, Cookie |-> cookieString(jar)]
        second == [url |-> <<Envelope.link>>, Cookie |-> FollowUpCookie(jar)]
        none == [rows |-> 0]
    IN  IF answer.firstHop # "link"
        THEN [requests |-> <<first>>, threw |-> TRUE, data |-> none]
        ELSE IF answer.secondHop = "fails"
             THEN [requests |-> <<first, second>>, threw |-> TRUE, data |-> none]
             ELSE [requests |-> <<first, second>>, threw |-> FALSE,
                   data |-> FetchedData(answer)]

\* a session of some logins, one fetch about to run
InitTwoHop ==
    /\ now = 0
    /\ EnvIdle
    /\ NormIdle
    /\ StoreIdle
    /\ cookieJar \in JarsAfterLogins
    /\ maxLoginAttempts = MaxLoginBound
    /\ emailSet = TRUE
    /\ alPc = "done"
    /\ alAttempts = 0
    /\ alOutcomes = <<>>
    /\ alDelays = 0
    /\ alResult = FALSE
    /\ lastLogin = NoLogin
    /\ lastVerify = NoVerify
    /\ serving = TRUE
    /\ lastRequest = NoRequest
    /\ reAuth = NoReAuth
    /\ lastSearch = NoSearch
    /\ \E path \in TwoHopPaths, answer \in HopAnswers :
         lastCycle = [ran |-> FALSE, path |-> path, answer |-> answer,
                      fetch |-> [requests |-> <<>>, threw |-> FALSE, data |-> [rows |-> 0]]]

\* the fetch from its call to its return or throw
CallTwoHopFetch ==
    /\ ~lastCycle.ran
    /\ lastCycle' = [lastCycle EXCEPT
            !.ran = TRUE,
            !.fetch = TwoHopFetch(lastCycle.path, cookieJar, lastCycle.answer)]
    /\ UNCHANGED <<now, envVars, normVars, authVars, storeVars, serving, lastRequest,
                   reAuth, lastSearch>>

NextTwoHop == CallTwoHopFetch

SpecTwoHop == InitTwoHop /\ [][NextTwoHop]_vars

----------------------------------------------------------------------------
(* The season-based fetchRacesFromIRacingAPI: sessions joined to series seasons *)

\* the value of a member that is absent (JavaScript undefined)
Undefined == "undefined"

\* the value null where a number is expected (ids are positive, 0 stands for
\* an absent member)
NullId == -1

\* !v for a numeric member: 0, an absent member and null are falsy
FalsyId(v) == v \in {0, NullId}

\* !v for a string member: undefined and '' are falsy
FalsyString(v) == v \in {Undefined, ""}

\* a raw session of the race guide; subsession_id or season_id 0: the member is
\* absent
SeasonSession(subsessionId, seasonId, track) ==
    [subsession_id |-> subsessionId, season_id |-> seasonId, track |-> track]

\* seasonsDataResponse.data
SeriesSeasons ==
    << [season_id |-> 100, series_id |-> 1, series_name |-> "Rookie Oval",
        category_id |-> 1] >>

\* seriesSeasons.find(season => season.season_id === session.season_id): the
\* index of the first match, 0 when find returns undefined
FindSeason(seriesSeasons, seasonId) ==
    LET hits == { i \in 1..Len(seriesSeasons) : seriesSeasons[i].season_id = seasonId }
    IN  IF hits = {} THEN 0 ELSE Min(hits)

\* the object the callback of raceGuide.sessions.map builds (the members the
\* validation reads, and name)
SeasonRace(session, seriesSeasons) ==
    LET si == FindSeason(seriesSeasons, session.season_id)
    IN  [ id |-> session.subsession_id,
          season_id |-> session.season_id,
          series_id |-> IF si # 0 THEN seriesSeasons[si].series_id ELSE NullId,
          name |-> IF si # 0 THEN seriesSeasons[si].series_name ELSE "Unknown Series",
          track_name |-> IF session.track.present THEN session.track.track_name
                         ELSE "Unknown Track" ]

\* if (!race.id || !race.season_id || !race.series_id || !race.track_name) return null
MissingRequired(race) ==
    \/ FalsyId(race.id)
    \/ FalsyId(race.season_id)
    \/ FalsyId(race.series_id)
    \/ FalsyString(race.track_name)

KeepsRace(race) == ~MissingRequired(race)

\* raceGuide.sessions.map(...).filter(race => race !== null)
SeasonOfficialRaces(sessions, seriesSeasons) ==
    SelectSeq([i \in 1..Len(sessions) |-> SeasonRace(sessions[i], seriesSeasons)], KeepsRace)

\* sessions with and without an id, of a season of the catalog, of another
\* season and of none, with and without a track
SeasonSessions ==
    { SeasonSession(id, season, track) :
        id \in {0, 5}, season \in {0, 100, 200},
        track \in { NoTrack, Track(7, "Daytona Road") } }

InitSeasonFetch ==
    /\ now = 0
    /\ EnvIdle
    /\ SrvIdle
    /\ raceData \in SeqsUpTo(SeasonSessions, MaxSessions)
    /\ clockReads = <<>>
    /\ processedRaces = <<>>
    /\ filteredRaces = <<>>
    /\ prThrewAt = 0
    /\ prDone = FALSE
    /\ AuthIdle
    /\ StoreIdle

\* the mapping and validation of fetchRacesFromIRacingAPI, the race guide
\* listing raceData
CallSeasonFetch ==
    /\ ~prDone
    /\ processedRaces' = [i \in 1..Len(raceData) |-> SeasonRace(raceData[i], SeriesSeasons)]
    /\ filteredRaces' = SeasonOfficialRaces(raceData, SeriesSeasons)
    /\ prDone' = TRUE
    /\ UNCHANGED <<now, raceData, clockReads, prThrewAt, envVars, srvVars, authVars,
                   storeVars>>

NextSeasonFetch == CallSeasonFetch

SpecSeasonFetch == InitSeasonFetch /\ [][NextSeasonFetch]_vars

(* calculateEndTime: the end of a session of the season-based fetch *)

\* largest race_lap_limit and largest race_time_limit (minutes) of a session
MaxLapLimit == 3
MaxTimeLimit == 3

\* duration = session.race_lap_limit * 2
MinutesPerLap == 2

\* a timestamp string: the instant it denotes (milliseconds) and whether its
\* text is the form toISOString prints; NoTimeString: the member is absent
TimeString(ms, iso) == [present |-> TRUE, ms |-> ms, iso |-> iso]
NoTimeString == [present |-> FALSE, ms |-> 0, iso |-> FALSE]

\* new Date(str).getTime()
getTime(str) == str.ms

\* new Date(ms).toISOString()
toISOString(ms) == TimeString(ms, TRUE)

\* a raw session as calculateEndTime reads it; a limit of 0 stands for 0, null
\* and an absent member alike (all falsy)
TimedSession(startTime, endTime, lapLimit, timeLimit) ==
    [start_time |-> startTime, end_time |-> endTime,
     race_lap_limit |-> lapLimit, race_time_limit |-> timeLimit]

\* the estimate with the time limit consulted before the lap limit
calculateEndTime_timeFirst(session) ==
    IF session.end_time.present THEN session.end_time
    ELSE LET startTime == getTime(session.start_time)
             duration == IF session.race_time_limit # 0 THEN session.race_time_limit
                         ELSE IF session.race_lap_limit # 0
                              THEN session.race_lap_limit * MinutesPerLap
                              ELSE 0
         IN  toISOString(startTime + duration * MsPerMinute)

\* calculateEndTime(session)
calculateEndTime(session) ==
    IF session.end_time.present THEN session.end_time
    ELSE LET startTime == getTime(session.start_time)
             duration == IF session.race_lap_limit # 0
                         THEN session.race_lap_limit * MinutesPerLap
                         ELSE IF session.race_time_limit # 0 THEN session.race_time_limit
                              ELSE 0
         IN  toISOString(startTime + duration * MsPerMinute)

\* sessions that start now or in ten minutes, with and without an end_time (in
\* either text form), a lap limit and a time limit
TimedSessions ==
    { TimedSession(TimeString(start, iso), endTime, laps, minutes) :
        start \in {0, 10 * MsPerMinute}, iso \in BOOLEAN,
        endTime \in {NoTimeString, TimeString(90 * MsPerMinute, TRUE),
                     TimeString(90 * MsPerMinute, FALSE)},
        laps \in 0..MaxLapLimit, minutes \in 0..MaxTimeLimit }

InitEndTime ==
    /\ now = 0
    /\ EnvIdle
    /\ SrvIdle
    /\ \E session \in TimedSessions : raceData = <<session>>
    /\ clockReads = <<>>
    /\ processedRaces = <<>>
    /\ filteredRaces = <<>>
    /\ prThrewAt = 0
    /\ prDone = FALSE
    /\ AuthIdle
    /\ StoreIdle

\* end_time: calculateEndTime(session) for each session of the race guide
CallCalculateEndTime ==
    /\ ~prDone
    /\ processedRaces' = [i \in 1..Len(raceData) |-> calculateEndTime(raceData[i])]
    /\ prDone' = TRUE
    /\ UNCHANGED <<now, raceData, clockReads, filteredRaces, prThrewAt, envVars, srvVars,
                   authVars, storeVars>>

NextEndTime == CallCalculateEndTime

SpecEndTime == InitEndTime /\ [][NextEndTime]_vars

----------------------------------------------------------------------------
(* The normalizer on its own: processRaceData applied to bounded inputs *)

\* the sessions of the filter example: 5 minutes ago, in 10, 30 and 60 minutes
FilterExample ==
    << RawSession(1, -5 * MsPerMinute, Track(7, "Daytona Road"), 12),
       RawSession(1, 10 * MsPerMinute, Track(7, "Daytona Road"), 12),
       RawSession(1, 30 * MsPerMinute, Track(7, "Daytona Road"), 12),
       RawSession(1, 60 * MsPerMinute, Track(7, "Daytona Road"), 12) >>

\* the clock values read by the classifications of n sessions, the first at
\* most MaxClockStep after `from`, each at most MaxClockStep after the one before
ClockReadings(from, n) ==
    { c \in [1..n -> from..(from + n * MaxClockStep)] :
        \A i \in 1..n : LET prev == IF i = 1 THEN from ELSE c[i - 1]
                        IN  c[i] >= prev /\ c[i] <= prev + MaxClockStep }

\* the inputs of one call: any bounded session list, and the clock values read
\* while its sessions are mapped
InitNormalize ==
    /\ now = 0
    /\ EnvIdle
    /\ SrvIdle
    /\ raceData \in SeqsUpTo(RawSessions, MaxSessions) \cup {FilterExample}
    /\ clockReads \in ClockReadings(0, Len(raceData))
    /\ processedRaces = <<>>
    /\ filteredRaces = <<>>
    /\ prThrewAt = 0
    /\ prDone = FALSE
    /\ AuthIdle
    /\ StoreIdle

\* the call of processRaceData with the catalogs
CallProcessRaceData ==
    /\ ~prDone
    /\ LET r == processRaceData(raceData, SeriesCatalog, TrackCatalog, CarCatalog,
                                clockReads)
       IN  /\ processedRaces' = r.processed
           /\ filteredRaces' = r.races
           /\ prThrewAt' = r.threwAt
    /\ now' = IF Len(raceData) = 0 THEN now ELSE clockReads[Len(raceData)]
    /\ prDone' = TRUE
    /\ UNCHANGED <<raceData, clockReads, envVars, srvVars, authVars, storeVars>>

NextNormalize == CallProcessRaceData

SpecNormalize == InitNormalize /\ [][NextNormalize]_vars

----------------------------------------------------------------------------
(* The records of processRaceData: track names and available cars *)

\* a session's `track` member that carries an id and no name
TrackNoName(id) == [present |-> TRUE, track_id |-> id, track_name |-> Undefined]

\* the track members a session may carry: none; an id of the catalog or not,
\* with an embedded name or without
SessionTracks ==
    { NoTrack, Track(7, "Daytona Road"), Track(8, "Lime Rock"),
      TrackNoName(7), TrackNoName(8) }

\* sessions starting in 30 minutes (they are published), of a series with one
\* car class, of one with two classes that share a car name, and of none
RecordSessions ==
    { RawSession(sid, 30 * MsPerMinute, track, 12) :
        sid \in {1, 2, UnknownSeriesId}, track \in SessionTracks }

InitRecords ==
    /\ now = 0
    /\ EnvIdle
    /\ SrvIdle
    /\ raceData \in SeqsUpTo(RecordSessions, MaxSessions)
    /\ clockReads = [i \in 1..Len(raceData) |-> 0]
    /\ processedRaces = <<>>
    /\ filteredRaces = <<>>
    /\ prThrewAt = 0
    /\ prDone = FALSE
    /\ AuthIdle
    /\ StoreIdle

SpecRecords == InitRecords /\ [][NextNormalize]_vars

----------------------------------------------------------------------------
(* Claims about the normalizer (checked under SpecNormalize) *)

\* the number of places of seq that hold x
Occurrences(seq, x) == Cardinality({ i \in 1..Len(seq) : seq[i] = x })

\* C1: calculateRaceState(start_time), D being the time from the clock value read
\* at the classification to start_time, returns Racing iff D <= 0, Qualifying iff
\* 0 < D <= 15 min, Practice iff 15 min < D <= 45 min, Scheduled iff D > 45 min,
\* and never a fifth value.
C1_ClassifierTable ==
    \A i \in 1..Len(processedRaces) :
        LET D == raceData[i].start_time - clockReads[i]
            st == processedRaces[i].state
        IN  /\ st \in RaceStates
            /\ (st = "Racing") <=> (D <= 0)
            /\ (st = "Qualifying") <=> (0 < D /\ D <= 15 * 60000)
            /\ (st = "Practice") <=> (15 * 60000 < D /\ D <= 45 * 60000)
            /\ (st = "Scheduled") <=> (D > 45 * 60000)

\* C1 witness: a session classified exactly 15 minutes before its start, after
\* the clock has moved, is Qualifying
C1_Witness ==
    /\ prDone
    /\ \E i \in 1..Len(processedRaces) :
          /\ clockReads[i] > 0
          /\ raceData[i].start_time - clockReads[i] = 15 * 60000
          /\ processedRaces[i].state = "Qualifying"

\* C2: the list processRaceData returns holds exactly the sessions classified
\* Qualifying or Practice: no Racing or Scheduled entry is in it, and every
\* record classified Qualifying or Practice is in it as often as it was built.
C2_FilterExact ==
    (prDone /\ prThrewAt = 0) =>
        /\ \A j \in 1..Len(filteredRaces) :
              /\ filteredRaces[j].state \in {"Qualifying", "Practice"}
              /\ \E i \in 1..Len(processedRaces) : processedRaces[i] = filteredRaces[j]
        /\ \A i \in 1..Len(processedRaces) :
              processedRaces[i].state \in {"Qualifying", "Practice"} =>
                  Occurrences(filteredRaces, processedRaces[i])
                      = Occurrences(processedRaces, processedRaces[i])

\* C2 witness: the sessions at -5, 10, 30 and 60 minutes yield the 10 and 30
\* minute entries only
C2_Witness ==
    /\ prDone
    /\ raceData = FilterExample
    /\ Len(filteredRaces) = 2
    /\ filteredRaces[1].start_time = 10 * 60000
    /\ filteredRaces[2].start_time = 30 * 60000

\* C3 (as claimed): the list processRaceData returns is ascending by start time,
\* whatever clock values were read while the sessions were classified.
C3_SortedByStartTime ==
    (prDone /\ prThrewAt = 0) =>
        \A j \in 1..(Len(filteredRaces) - 1) :
            filteredRaces[j].start_time <= filteredRaces[j + 1].start_time

\* C7: a raw session whose series_id is in no catalog entry does not make
\* processRaceData throw, and its record has title 'Unknown Series', car_class 0,
\* car_class_name 'Unknown', license_level 'Unknown' and no available cars.
C7_UnknownSeriesFallback ==
    \A i \in 1..Len(raceData) :
        (prDone /\ \A k \in 1..Len(SeriesCatalog) :
                        SeriesCatalog[k].series_id # raceData[i].series_id) =>
            /\ prThrewAt # i
            /\ i <= Len(processedRaces) =>
                  /\ processedRaces[i].title = "Unknown Series"
                  /\ processedRaces[i].car_class = 0
                  /\ processedRaces[i].car_class_name = "Unknown"
                  /\ processedRaces[i].license_level = "Unknown"
                  /\ processedRaces[i].available_cars = <<>>

\* C7 witness: a record was built for a session of an unknown series, and returned
C7_Witness ==
    /\ prDone
    /\ prThrewAt = 0
    /\ \E j \in 1..Len(filteredRaces) :
          /\ filteredRaces[j].series_id = UnknownSeriesId
          /\ filteredRaces[j].title = "Unknown Series"

----------------------------------------------------------------------------
(* Claims about authentication (checked under SpecAuth) *)

\* the login calls of attemptLogin that failed
FailedLogins == Cardinality({ i \in 1..Len(alOutcomes) : ~alOutcomes[i] })

\* C8: with N = MAX_LOGIN_ATTEMPTS and login failing on its first k calls:
\* attemptLogin returns true after exactly k+1 login calls and k delays when
\* k < N (the success being its last call), returns false after exactly N login
\* calls and N-1 delays when no call among the first N succeeds; no login call
\* follows a success; and it terminates: until it has returned it can always
\* take a step, and its calls and delays are bounded by 2N-1.
C8_BoundedRetry ==
    LET N == maxLoginAttempts
        nCalls == Len(alOutcomes)
    IN  /\ \A i \in 1..(nCalls - 1) : ~alOutcomes[i]
        /\ alPc = "done" =>
              IF alResult
              THEN /\ alOutcomes[nCalls]
                   /\ FailedLogins < N
                   /\ nCalls = FailedLogins + 1
                   /\ alDelays = FailedLogins
              ELSE /\ FailedLogins = N
                   /\ nCalls = N
                   /\ alDelays = N - 1
        /\ alPc # "done" =>
              /\ nCalls + alDelays < 2 * N - 1
              /\ ENABLED (AttemptLoginCall \/ AttemptLoginDelay)

\* C8 witness: login failed twice and succeeded on the third call, N being 5:
\* attemptLogin returned true after 3 calls and 2 delays
C8_Witness ==
    /\ maxLoginAttempts = 5
    /\ alPc = "done"
    /\ alResult
    /\ alOutcomes = <<FALSE, FALSE, TRUE>>
    /\ alDelays = 2

\* C9: login never throws; it returns true exactly when the auth response
\* resolved and carried Set-Cookie headers that were all stored in the jar, and
\* false when the request failed or the response carried no cookies.
C9_LoginTotal ==
    lastLogin.called =>
        LET resp == lastLogin.resp
            accepted == /\ resp.status >= 200 /\ resp.status < 300
                        /\ resp.hasSetCookie
                        /\ \A i \in 1..Len(resp.setCookie) : resp.setCookie[i].valid
        IN  /\ ~lastLogin.threw
            /\ lastLogin.returned <=> accepted
            /\ lastLogin.returned =>
                  \A i \in 1..Len(resp.setCookie) :
                      (\A j \in (i + 1)..Len(resp.setCookie) :
                            resp.setCookie[j].key # resp.setCookie[i].key)
                      => [key |-> resp.setCookie[i].key,
                          value |-> resp.setCookie[i].value] \in cookieJar
            /\ (resp.status = 0 \/ resp.status >= 300 \/ ~resp.hasSetCookie)
                  => ~lastLogin.returned

\* C10: verifyAuth never throws, returns true only when the probe answered 200,
\* and returns false for every other status and for a network failure.
C10_VerifyOnly200 ==
    lastVerify.called =>
        /\ ~lastVerify.threw
        /\ lastVerify.returned => lastVerify.status = 200
        /\ lastVerify.status # 200 => ~lastVerify.returned

\* C10 witness: a probe answered 204 (resolved, but not 200) gave false
C10_Witness ==
    /\ lastVerify.called
    /\ lastVerify.status = 204
    /\ ~lastVerify.returned

----------------------------------------------------------------------------
(* Claims about the store (checked under SpecStore) *)

\* the rows of the accepted upserts, oldest first
RECURSIVE Flat(_)
Flat(batches) == IF batches = <<>> THEN <<>> ELSE Head(batches) \o Flat(Tail(batches))

\* the values the latest accepted upsert of natural key k wrote
LatestUpserted(k) ==
    LET rows == Flat(upsertLog)
        last == CHOOSE i \in 1..Len(rows) :
                    /\ NaturalKey(rows[i]) = k
                    /\ \A j \in (i + 1)..Len(rows) : NaturalKey(rows[j]) # k
    IN rows[last]

\* C4: upserting races is idempotent on (series_id, start_time): after any
\* sequence of getOfficialRaces calls, overlapping or not, official_races holds
\* exactly one row per pair that was upserted, no other row, and the row carries
\* the values of the latest upsert of its pair.
C4_OneRowPerNaturalKey ==
    LET rows == Flat(upsertLog)
    IN  /\ \A i, j \in 1..Len(official_races) :
              NaturalKey(official_races[i]) = NaturalKey(official_races[j]) => i = j
        /\ \A k \in 1..Len(rows) :
              \E i \in 1..Len(official_races) :
                  official_races[i] = [id |-> official_races[i].id]
                                          @@ LatestUpserted(NaturalKey(rows[k]))
        /\ \A i \in 1..Len(official_races) :
              \E k \in 1..Len(rows) : NaturalKey(rows[k]) = NaturalKey(official_races[i])

\* C4 witness: two calls each upserted the same (series_id, start_time) with
\* different values, and the store holds one row
C4_Witness ==
    /\ Len(upsertLog) = 2
    /\ Len(upsertLog[1]) = 1
    /\ Len(upsertLog[2]) = 1
    /\ NaturalKey(upsertLog[1][1]) = NaturalKey(upsertLog[2][1])
    /\ upsertLog[1][1] # upsertLog[2][1]
    /\ Len(official_races) = 1

\* C5: re-submitting the same normalized race creates no duplicate child rows:
\* after any number of getOfficialRaces calls, available_cars holds at most one
\* row per (race id, car_name) pair.
C5_NoDuplicateChildRows ==
    \A i, j \in 1..Len(available_cars) :
        ( /\ available_cars[i].race_id = available_cars[j].race_id
          /\ available_cars[i].car_name = available_cars[j].car_name ) => i = j

\* the first n elements of a list (all of it when it is shorter)
Prefix(seq, n) == SubSeq(seq, 1, IF n < Len(seq) THEN n ELSE Len(seq))

\* C6: with no write between the page reads, the pages 1, 2, ... a reader gets
\* from getOfficialRaces concatenate to the full ordered result set: after p
\* pages of size L the reader holds the first min(T, p * L) races of the result
\* set of size T (so every race once, none omitted, from page ceil(T/L) on), and
\* the pages after that are empty. The result set is taken to be the one of the
\* reader's first call or the one of its latest call.
C6_PagesConcatenate ==
    LET got == Flat(reader.pages)
        n == Len(reader.pages) * reader.limit
    IN  Len(reader.pages) > 0 =>
            \/ got = Prefix(reader.first, n)
            \/ got = Prefix(reader.latest, n)

----------------------------------------------------------------------------
(* Claims about the driver lookup (checked under SpecSearch) *)

\* the driver's display_name contains the searched name, case-insensitively
ContainsName(driver, name) ==
    name.isString /\ includes(toLowerCase(driver.display_name), toLowerCase(name.chars))

\* the driver's display_name equals the searched name, case-insensitively
EqualsName(driver, name) ==
    name.isString /\ toLowerCase(driver.display_name) = toLowerCase(name.chars)

\* C15: searchIRacingName returns {exists: false} without throwing whenever the
\* upstream result set is empty, is not an array, or lists no driver whose
\* display_name contains the searched name case-insensitively; it throws only
\* when an upstream request itself failed.
C15_MissNeverThrows ==
    lastSearch.called =>
        LET a == lastSearch.answer
            requestFailed == a.firstHop = "fails"
                             \/ (a.firstHop = "link" /\ a.secondHop = "fails")
            noMatch == /\ a.firstHop = "link"
                       /\ \/ a.secondHop = "notArray"
                          \/ /\ a.secondHop = "array"
                             /\ \A i \in 1..Len(a.drivers) :
                                    ~ContainsName(a.drivers[i], lastSearch.name)
        IN  /\ noMatch => lastSearch.result = SearchMiss
            /\ lastSearch.result.threw => requestFailed

\* C16: when the result set lists a driver whose display_name equals the
\* searched name case-insensitively and a driver whose display_name only
\* contains it, searchIRacingName returns the equal one, whatever their order.
C16_ExactMatchPreferred ==
    (lastSearch.called /\ lastSearch.name.isString
        /\ lastSearch.answer.firstHop = "link" /\ lastSearch.answer.secondHop = "array") =>
        LET d == lastSearch.answer.drivers
            name == lastSearch.name
        IN  ( /\ \E i \in 1..Len(d) : EqualsName(d[i], name)
              /\ \E i \in 1..Len(d) : ContainsName(d[i], name) /\ ~EqualsName(d[i], name) )
            => /\ lastSearch.result.exists
               /\ toLowerCase(lastSearch.result.name) = toLowerCase(name.chars)

----------------------------------------------------------------------------
(* Claims about the server's routes (checked under SpecServer) *)

ServesAfterGivingUp ==
    /\ (alPc = "done" /\ ~alResult) =>
          /\ serving
          /\ ENABLED HandleHealth
          /\ \A route \in GatedRoutes : ENABLED HandleGated(route)
    /\ (lastRequest.handled /\ lastRequest.loginGaveUp /\ lastRequest.route = "/api/health")
          => lastRequest.status = 200

C12_LoginIffUnverified ==
    /\ serving
    /\ ~reAuth.rejected
    /\ (reAuth.pc = "login") => ~reAuth.verified
    /\ (reAuth.pc = "idle" /\ reAuth.runs > 0) => (reAuth.loginCalled <=> ~reAuth.verified)

\* a second run found no session, its login threw, and the process serves on
\* without a session
C12_Witness ==
    /\ reAuth.pc = "idle"
    /\ reAuth.runs = 2
    /\ reAuth.loginCalled
    /\ reAuth.loginThrew
    /\ serving
    /\ ~SessionLive(cookieJar, validTokens)

CookiesOf(list) ==
    { [key |-> list[i].key, value |-> list[i].value] : i \in 1..Len(list) }

\* C20: after every successful login the cookie set used for later requests is
\* exactly the set of cookies that login returned; no cookie that only an
\* earlier login had set remains
C20_SessionReplaced ==
    (lastLogin.called /\ lastLogin.returned)
        => cookieJar = CookiesOf(lastLogin.resp.setCookie)

\* the upstream failures of a fetch cycle: a race guide first hop that fails or
\* has no link, a schedule body that does not arrive or is malformed, a failing
\* series, track or car fetch
UpstreamFails(u) ==
    \/ u.guideHop # "link"
    \/ u.guideBody # "sessions"
    \/ u.series # "ok"
    \/ u.tracks # "ok"
    \/ u.cars # "ok"

\* C17: a fetch cycle that meets an upstream failure makes getOfficialRaces
\* throw to its caller and issues no upsert: the store is unchanged and no store
\* request of that call is pending
C17_UpstreamFailureAborts ==
    [][\A c \in CallIds :
         (CycleFetch(c) /\ UpstreamFails(lastCycle'.upstream))
            => /\ lastCycle'.threw
               /\ lastResult' = OfficialRacesThrew
               /\ calls'[c].pc = "idle"
               /\ UNCHANGED <<official_races, available_cars, upsertLog>>]_vars

\* races were stored by an earlier cycle, and the latest cycle met a malformed
\* schedule body and threw
C17_Witness ==
    /\ lastCycle.ran
    /\ lastCycle.upstream.guideBody = "noSessions"
    /\ lastCycle.upstream.guideHop = "link"
    /\ lastCycle.threw
    /\ lastResult = OfficialRacesThrew
    /\ Len(official_races) > 0

\* the call c goes on with its batch after a step: it is at the next car or
\* the next race, or it has returned its result
BatchGoesOn(c) ==
    \/ calls'[c].pc \in {"upsert", "cars"}
    \/ /\ calls'[c].pc = "idle"
       /\ lastResult' = OfficialRacesResult(calls[c].freshRaces, calls[c].page,
                                            calls[c].limit)

\* C18: in the per-row upsert loop a store error on one race, or on one of its
\* available-car rows, does not abort the batch: the loop goes on to the
\* remaining races and getOfficialRaces returns its result
C18_RowErrorDoesNotAbort ==
    [][\A c \in CallIds :
         /\ (UpsertRaceThenCars(c) /\ UNCHANGED upsertLog) => BatchGoesOn(c)
         /\ (UpsertCarRow(c) /\ UNCHANGED available_cars) => BatchGoesOn(c)]_vars

\* the store holds the row of a race of a result
Committed(race) ==
    \E k \in 1..Len(official_races) : NaturalKey(official_races[k]) = NaturalKey(race)

\* C19: an upsert failure is surfaced, not swallowed: whenever getOfficialRaces
\* returns a normal result, every race listed in that result has been committed
\* to the store
C19_UpsertFailureSurfaced ==
    (lastResult.finished /\ ~lastResult.threw)
        => \A i \in 1..Len(lastResult.races) : Committed(lastResult.races[i])

\* C27: every record produced by processRaceData has a defined track_name: the
\* catalog name when the track id is in the catalog, otherwise the name embedded
\* in the session, otherwise 'Unknown Track', whatever the session's track
\* member holds
C27_TrackNameDefined ==
    prDone => \A i \in 1..Len(processedRaces) : processedRaces[i].track_name # Undefined

\* the names of the cars whose class is among the series' car_class_ids
EligibleCarNames(seriesId) ==
    LET si == FindSeries(SeriesCatalog, seriesId)
    IN  IF si = 0 THEN {}
        ELSE { CarCatalog[j].car_name :
                 j \in { k \in 1..Len(CarCatalog) :
                           \E c \in 1..Len(SeriesCatalog[si].car_class_ids) :
                              SeriesCatalog[si].car_class_ids[c] = CarCatalog[k].car_class_id } }

\* C28: available_cars of each record holds every name of a car whose class is
\* among the series' car_class_ids, no other name, and no name twice
C28_AvailableCarsDeduplicated ==
    prDone =>
      \A i \in 1..Len(processedRaces) :
        LET cars == processedRaces[i].available_cars
        IN  /\ { cars[k] : k \in 1..Len(cars) } = EligibleCarNames(processedRaces[i].series_id)
            /\ \A k \in 1..Len(cars) : Occurrences(cars, cars[k]) = 1

\* the raw sessions that have an id, a season_id and a track
CompleteSessions ==
    { i \in 1..Len(raceData) :
        /\ raceData[i].subsession_id # 0
        /\ raceData[i].season_id # 0
        /\ raceData[i].track.present }

\* C29: the season-based fetchRacesFromIRacingAPI drops no session for want of
\* a series: it yields one record for every raw session that has an id, a
\* season_id and a track, with the name 'Unknown Series' when the season_id
\* matches no series-season entry
C29_UnmatchedSeriesKept ==
    prDone =>
      /\ Len(filteredRaces) = Cardinality(CompleteSessions)
      /\ \A i \in CompleteSessions :
           FindSeason(SeriesSeasons, raceData[i].season_id) = 0
             => \E k \in 1..Len(filteredRaces) :
                  /\ filteredRaces[k].id = raceData[i].subsession_id
                  /\ filteredRaces[k].name = "Unknown Series"

\* the call that has returned a result
Returned(c) == calls[c].pc = "returned" /\ lastResult.finished /\ ~lastResult.threw

PublishedNow ==
    { i \in 1..Len(reader.guide) :
        calculateRaceState(reader.guide[i].start_time, now) \in {"Qualifying", "Practice"} }

\* C26: total is the size of the full matching result set whatever the page
\* number and the page size, also for a page past the end, where races is empty
C26_TotalIndependentOfPage ==
    \A c \in CallIds :
      Returned(c) =>
        /\ lastResult.total = Cardinality(PublishedNow)
        /\ (lastResult.page - 1) * lastResult.limit >= lastResult.total
             => lastResult.races = <<>>

\* a page past the end of a non-empty result set
C26_Witness ==
    /\ Returned(1)
    /\ lastResult.total = 2
    /\ lastResult.page = 3
    /\ lastResult.limit = 1
    /\ lastResult.races = <<>>

\* the natural keys a list of races or rows names
KeysOf(rows) == { NaturalKey(rows[i]) : i \in 1..Len(rows) }

\* the natural keys an upsert in flight may write
KeysInFlight == UNION { KeysOf(calls[c].freshRaces) : c \in { d \in CallIds : calls[d].pc = "upsert" } }

\* C24: the core never deletes race rows: in every step the natural keys of the
\* official_races store are kept, and a row whose key no fetch in flight lists
\* is left exactly as it was
C24_RowsNeverDeleted ==
    [][\A k \in 1..Len(official_races) :
         \E j \in 1..Len(official_races') :
            /\ NaturalKey(official_races'[j]) = NaturalKey(official_races[k])
            /\ NaturalKey(official_races[k]) \notin KeysInFlight
                 => official_races'[j] = official_races[k]]_vars

\* two fetches were upserted and the store keeps a row the later one did not list
C24_Witness ==
    /\ Len(upsertLog) = 2
    /\ \E k \in 1..Len(official_races) :
         NaturalKey(official_races[k]) \notin KeysOf(upsertLog[2])

\* C23: in the version of getOfficialRaces that serves from the store, every
\* returned row has the state its start_time classifies to at the time of the
\* response; a race whose start time has passed is never returned as
\* Qualifying or Practice
C23_ServedStateIsCurrent ==
    [][\A c \in CallIds :
         (GetOfficialRacesServed(c) /\ ~lastResult'.threw)
            => \A i \in 1..Len(lastResult'.races) :
                 lastResult'.races[i].state
                    = calculateRaceState(lastResult'.races[i].start_time, now)]_vars

\* C30: a first-hop response of the driver lookup that carries no link makes
\* searchIRacingName raise an error to its caller, never a normal result
C30_NoLinkRaises ==
    (lastSearch.called /\ lastSearch.answer.firstHop = "noLink")
        => lastSearch.result.threw

\* the Cookie headers that are the complete cookie set of one login: the
\* key=value pairs of one Set-Cookie list the upstream answers a login with
OneLoginHeaders ==
    { cookieString(CookiesOf(l)) :
        l \in { m \in SetCookieLists : \A i \in 1..Len(m) : m[i].valid } }

\* C21: however a re-login interleaves with the requests in flight, every
\* request that carries cookies carries the complete cookie set of exactly one
\* login, never a partial set and never cookies of two logins
C21_HeaderOfOneLogin ==
    \A c \in CallIds :
        calls[c].Cookie # {} => calls[c].Cookie \in OneLoginHeaders

\* C22: every upstream call is bounded in time: a request the program awaits
\* leads to the operation that issued it completing (the fetch returns or
\* throws, login returns), whether or not the upstream answers
C22_AwaitsEnd ==
    /\ \A c \in CallIds : (calls[c].pc = "awaiting") ~> (calls[c].pc = "returned")
    /\ (reAuth.pc = "login") ~> (reAuth.pc = "idle")

\* C31: calculateEndTime returns the supplied end_time when the session has
\* one; otherwise the instant start_time plus 2 minutes per lap when
\* race_lap_limit is set (whatever race_time_limit is), else start_time plus
\* race_time_limit minutes when that is set, else start_time itself
C31_EndTimeTable ==
    prDone =>
      \A i \in 1..Len(raceData) :
        LET s == raceData[i]
            e == processedRaces[i]
        IN  /\ s.end_time.present => e = s.end_time
            /\ (~s.end_time.present /\ s.race_lap_limit > 0)
                 => e.ms = s.start_time.ms + 2 * s.race_lap_limit * 60000
            /\ (~s.end_time.present /\ s.race_lap_limit = 0 /\ s.race_time_limit > 0)
                 => e.ms = s.start_time.ms + s.race_time_limit * 60000
            /\ (~s.end_time.present /\ s.race_lap_limit = 0 /\ s.race_time_limit = 0)
                 => e.ms = s.start_time.ms

\* a session without end_time whose lap limit and time limit are both set and
\* give different estimates got the lap estimate
C31_Witness ==
    /\ prDone
    /\ ~raceData[1].end_time.present
    /\ raceData[1].race_lap_limit = 1
    /\ raceData[1].race_time_limit = 3
    /\ processedRaces[1].ms = raceData[1].start_time.ms + 2 * 60000

\* C32: in every two-hop fetch the session cookies go out with the first
\* request (to the base URL) only: the follow-up GET of the link carries no
\* cookie, and the data the fetch yields is the body of the follow-up
\* response, not the envelope
C32_CookieOnFirstHopOnly ==
    lastCycle.ran =>
      LET f == lastCycle.fetch
      IN  /\ f.requests[1].url[1] = "BASE_URL"
          /\ f.requests[1].Cookie = { <<c.key, c.value>> : c \in cookieJar }
          /\ \A k \in 2..Len(f.requests) :
                /\ f.requests[k].url = <<"https://link">>
                /\ f.requests[k].Cookie = {}
          /\ ~f.threw => /\ Len(f.requests) = 2
                         /\ f.data = lastCycle.answer.body
                         /\ f.data # Envelope

\* a fetch with two session cookies in the jar got a body from the link
C32_Witness ==
    /\ lastCycle.ran
    /\ ~lastCycle.fetch.threw
    /\ Cardinality(cookieJar) = 2
    /\ Len(lastCycle.fetch.requests) = 2
    /\ lastCycle.fetch.data = [rows |-> 2]

\* C33: in every list of races getOfficialRaces serves, Qualifying entries
\* come before Practice entries: no Practice race precedes a Qualifying race
C33_QualifyingBeforePractice ==
    (lastResult.finished /\ ~lastResult.threw)
        => \A i, j \in 1..Len(lastResult.races) :
             (lastResult.races[i].state = "Practice"
                /\ lastResult.races[j].state = "Qualifying") => j < i

\* whether the page the call first read from the store was not empty and its
\* newest updated_at less than 5 minutes old when the call ran
PageWasFresh(call) ==
    /\ call.cached # <<>>
    /\ \E k \in 1..Len(call.cached) : call.at - call.cached[k].updated_at < 300000

\* C34: a call of the cached getOfficialRaces performs no upstream fetch and no
\* store write exactly when the requested page read from the store is not
\* empty and the newest updated_at among its rows is less than 5 minutes old;
\* hence no row served from the cache is older than 5 minutes
C34_CacheNeverStale ==
    /\ (lastResult.finished /\ lastResult.cacheRead)
          => ((~lastResult.fetched /\ ~lastResult.wrote) <=> PageWasFresh(lastResult))
    /\ (lastResult.finished /\ ~lastResult.threw /\ ~lastResult.fetched)
          => \A k \in 1..Len(lastResult.races) :
                lastResult.at - lastResult.races[k].updated_at < 300000

\* C35: a login that reports false leaves the session unchanged: the cookie jar
\* after the call equals the cookie jar before it, whatever made the login fail
C35_FailedLoginKeepsJar ==
    (lastLogin.called /\ ~lastLogin.threw /\ ~lastLogin.returned)
        => cookieJar = lastLogin.jarBefore

\* C36: within one fetch cycle the race-guide, series, track and car requests
\* all carry the same cookies: every first hop after the race guide's goes out
\* with the Cookie header of the first hop before it, also when a login was
\* answered in between
C36_OneSnapshotPerCycle ==
    [][\A c \in CallIds :
         (IssueRequest(c) /\ calls[c].hop > 0 /\ CarriesCookie(calls'[c].hop))
            => calls'[c].Cookie = calls[c].Cookie]_vars

\* entries (p - 1) * l + 1 .. p * l of a result set
EntriesOf(resultSet, p, l) ==
    [k \in 1..(IF Len(resultSet) > p * l THEN l
               ELSE IF Len(resultSet) > (p - 1) * l THEN Len(resultSet) - (p - 1) * l
               ELSE 0) |-> resultSet[(p - 1) * l + k]]

\* C37: a request GET /api/official-races?page=p&limit=l with positive
\* integers p and l is answered with page = p, limit = l and at most l races,
\* entries (p-1)*l+1 .. p*l of the ordered result set; a request without the
\* parameters is answered with page 1 and limit 10
C37_PageAndLimitHonoured ==
    (lastRequest.handled /\ lastRequest.status = 200) =>
        LET q == lastRequest.query
        IN  /\ (q.page.numeric /\ q.page.n > 0 /\ q.limit.numeric /\ q.limit.n > 0)
                 => /\ lastResult.page = q.page.n
                    /\ lastResult.limit = q.limit.n
                    /\ Len(lastResult.races) <= q.limit.n
                    /\ lastResult.races = EntriesOf(lastRequest.resultSet, q.page.n, q.limit.n)
            /\ (~q.page.present /\ ~q.limit.present)
                 => (lastResult.page = 1 /\ lastResult.limit = 10)

\* C38: the page size getOfficialRaces slices or range-reads with is at least
\* 1, whatever the limit query value (absent, no number, zero, negative)
C38_PageSizePositive ==
    (lastRequest.handled /\ lastRequest.paged) => lastRequest.pageSize >= 1

\* C39: processRaceData never throws, whatever the raw sessions and the
\* catalogs: every session yields a record, also one whose series is found
\* with an empty allowed_licenses list or one without a track object
C39_ProcessRaceDataTotal ==
    prDone => (prThrewAt = 0 /\ Len(processedRaces) = Len(raceData))

============================================================================
